---- MODULE Spec2Model ----
(***************************************************************************)
(* Model of the fantasy name generator: the block scoring and selection    *)
(* engine of fantasynamegen/patterns.py and the name assembly and          *)
(* post-processing pipeline of fantasynamegen/generator.py.                *)
(*                                                                         *)
(* Text is a sequence of characters, each a string: a letter is itself,    *)
(* a ligature glyph is "lig-ae", "LIG-AE", ... and an accented vowel is    *)
(* "a1", "a2", ....  Scores are Python floats in the source; here they are *)
(* exact integers counted in 1/Unit of a point (100.0 is 100 * Unit),      *)
(* weights and probabilities are counted in hundredths and the             *)
(* common-letter multiplier in tenths, so every comparison the code makes  *)
(* is made on exact values.                                                *)
(***************************************************************************)
EXTENDS Integers, Sequences, FiniteSets, TLC

VARIABLES
    data_dir,        \* which data directory the process runs on
    loaded,          \* patterns.pattern_blocks is not None
    theme,           \* pattern_blocks.theme
    prefixes,        \* pattern_blocks.prefixes (ordered: dict insertion order)
    middles,         \* pattern_blocks.middles
    suffixes,        \* pattern_blocks.suffixes
    pair_penalties,  \* the letter pair table load_pair_penalties returns
    config,          \* the shared FantasyNameConfig (without its next two fields)
    sc,              \* config.scoring_config
    blocks_used,     \* config.blocks_used
    pc,              \* position inside generate_fantasy_name ("idle": no call runs)
    block_count,     \* local block_count of the running call
    name,            \* local name of the running call
    features,        \* what add_special_features did in the running call
    mods_applied,    \* what apply_character_modifications applied
    metadata,        \* the metadata dict of the running call
    sel,             \* what the last selector call scored and returned
    calls,           \* the calls the running generate_fantasy_name has made
    result,          \* the value the last finished call returned
    forced_log,      \* the first low-score selection of the run, with its inputs
    last_outcome,    \* how the previous call on the shared config ended
    fn_args,         \* arguments of a directly called function
    fn_ret           \* its return value

vars == <<data_dir, loaded, theme, prefixes, middles, suffixes, pair_penalties,
          config, sc, blocks_used, pc, block_count, name, features, mods_applied,
          metadata, sel, calls, result, forced_log, last_outcome, fn_args,
          fn_ret>>

-----------------------------------------------------------------------------
(* Bounds of the model *)

\* fragments of every length up to this one are enumerated over Alphabet
MaxFragLen == 2

\* top_n_candidates is drawn from 1..MaxTopN and the default
MaxTopN == 2

-----------------------------------------------------------------------------
(* Characters and strings *)

Min(a, b) == IF a < b THEN a ELSE b
Max(a, b) == IF a > b THEN a ELSE b
Abs(a) == IF a < 0 THEN -a ELSE a

\* <<lower, upper>> of the cased characters the model uses; "a1".."a5" are
\* the five accented variants of "a" in diacritic_map, and so on
CasePairs ==
    {<<"a", "A">>, <<"e", "E">>, <<"i", "I">>, <<"o", "O">>,
     <<"u", "U">>, <<"k", "K">>, <<"p", "P">>, <<"t", "T">>,
     <<"d", "D">>, <<"g", "G">>, <<"b", "B">>, <<"l", "L">>,
     <<"n", "N">>, <<"r", "R">>, <<"m", "M">>, <<"s", "S">>,
     <<"h", "H">>, <<"y", "Y">>, <<"a1", "A1">>, <<"a2", "A2">>,
     <<"a3", "A3">>, <<"a4", "A4">>, <<"a5", "A5">>, <<"e1", "E1">>,
     <<"e2", "E2">>, <<"e3", "E3">>, <<"e4", "E4">>, <<"i1", "I1">>,
     <<"i2", "I2">>, <<"i3", "I3">>, <<"i4", "I4">>, <<"o1", "O1">>,
     <<"o2", "O2">>, <<"o3", "O3">>, <<"o4", "O4">>, <<"o5", "O5">>,
     <<"u1", "U1">>, <<"u2", "U2">>, <<"u3", "U3">>, <<"u4", "U4">>,
     <<"y1", "Y1">>, <<"y2", "Y2">>, <<"lig-ae", "LIG-AE">>, <<"lig-oe", "LIG-OE">>,
     <<"lig-th", "LIG-TH">>, <<"lig-dh", "LIG-DH">>}

\* str.lower() of one character
LowerChar(c) ==
    IF \E p \in CasePairs : p[2] = c
    THEN (CHOOSE p \in CasePairs : p[2] = c)[1]
    ELSE c

\* str.lower()
Lower(s) == [i \in 1..Len(s) |-> LowerChar(s[i])]

\* s[-n:] for n >= 1
LastChars(s, n) == SubSeq(s, Max(1, Len(s) - n + 1), Len(s))

\* s[:n]
FirstChars(s, n) == SubSeq(s, 1, Min(n, Len(s)))

\* pat in s
Contains(s, pat) ==
    \E i \in 1..(Len(s) - Len(pat) + 1) : SubSeq(s, i, i + Len(pat) - 1) = pat

\* c in "<chars>" for a one-character c
InChars(c, chars) == \E i \in 1..Len(chars) : chars[i] = c

is_vowel(char) == LowerChar(char) \in {"a", "e", "i", "o", "u"}

get_vowel_consonant_pattern(text) ==
    [i \in 1..Len(text) |-> IF is_vowel(LowerChar(text[i])) THEN "V" ELSE "C"]

RECURSIVE SumSeq(_)
SumSeq(s) == IF s = <<>> THEN 0 ELSE s[1] + SumSeq(Tail(s))

\* ''.join(blocks)
RECURSIVE Join(_)
Join(blocks) == IF blocks = <<>> THEN <<>> ELSE blocks[1] \o Join(Tail(blocks))

-----------------------------------------------------------------------------
(* Score arithmetic *)

\* scale_count * max_dist_per_scale
MaxTotalDistance == 5 * 9

\* score units per point: distances are counted in tenths, so a vibe score
\* 100 * (1 - d / MaxTotalDistance) is a whole number of 1/(2 * 45) points
Unit == 2 * MaxTotalDistance

Points(p) == p * Unit

\* a penalty of p points scaled by a multiplier given in tenths
Scaled(p, tenths) == (p * tenths * Unit) \div 10

-----------------------------------------------------------------------------
(* ScoringConfig *)

DefaultScoringConfig ==
    [weight_vibe |-> 50,                  \* hundredths
     weight_compatibility |-> 50,         \* hundredths
     top_n_candidates |-> 40,
     low_score_threshold |-> 50,
     penalty_repetition_direct_block |-> 75,
     penalty_repetition_sequence |-> 65,
     penalty_repetition_syllable |-> 80,
     penalty_repetition_vowel_across_boundary |-> 20,
     penalty_repetition_triple_letter |-> 85,
     penalty_repetition_syllable_common_multiplier |-> 2,   \* tenths
     penalty_boundary_consonants_3 |-> 50,
     penalty_boundary_consonants_4plus |-> 80,
     penalty_boundary_vowels_3plus |-> 50,
     penalty_boundary_hard_stop_join |-> 20,
     penalty_boundary_awkward_vowel_join |-> 50,
     penalty_boundary_cluster_hard_stop |-> 50,
     bonus_smooth_transition |-> 15,
     penalty_letter_pairs_factor |-> 40]

-----------------------------------------------------------------------------
(* Letter pair penalties *)

\* penalties.get(pair, 0.0), in tenths of a point; the table is a set of
\* <<pair, penalty>> rows
PairPenalty(table, pair) ==
    IF \E row \in table : row[1] = pair
    THEN (CHOOSE row \in table : row[1] = pair)[2]
    ELSE 0

calculate_letter_pair_penalties(table, combined_text) ==
    IF Len(combined_text) < 2 \/ table = {}
    THEN 0
    ELSE LET text_lower == Lower(combined_text)
         IN  SumSeq([i \in 1..(Len(text_lower) - 1) |->
                        PairPenalty(table, SubSeq(text_lower, i, i + 1))])

-----------------------------------------------------------------------------
(* score_vibe_match *)

\* the five vibe scales, in the order the code walks them
Scales == <<"good_evil", "elegant_rough", "common_exotic", "weak_powerful",
            "fem_masc">>

ScaleSet == {Scales[i] : i \in 1..Len(Scales)}

\* block_vibes.get(scale) is None
NoValue == 0

\* a value of a block that is no number: arithmetic on it raises TypeError
BadValue == -1

\* target_vibes.get(scale) is None
NoRange == <<>>

\* the distance with a range that has no upper end
ScaleDistance10_MinOnly(block_val, target_range) ==
    IF block_val = NoValue
    THEN (MaxTotalDistance \div 5) * 6
    ELSE IF target_range = NoRange
    THEN 10 * Abs(block_val - 5)
    ELSE IF target_range[1] <= block_val
    THEN 0
    ELSE 10 * Abs(block_val - target_range[1])

\* the distance with a missing value counted as the neutral 4.5, no extra penalty
ScaleDistance10_NoExtraPenalty(block_val, target_range) ==
    IF block_val = NoValue
    THEN (MaxTotalDistance \div 5) * 5
    ELSE IF target_range = NoRange
    THEN 10 * Abs(block_val - 5)
    ELSE IF target_range[1] <= block_val /\ block_val <= target_range[2]
    THEN 0
    ELSE 10 * Min(Abs(block_val - target_range[1]),
                  Abs(block_val - target_range[2]))

\* distance of one scale, in tenths; BadValue never reaches this operator
ScaleDistance10(block_val, target_range) ==
    IF block_val = NoValue
    THEN (MaxTotalDistance \div 5) * 6           \* (9 / 2.0) * 1.2 = 5.4
    ELSE IF target_range = NoRange
    THEN 10 * Abs(block_val - 5)
    ELSE IF target_range[1] <= block_val /\ block_val <= target_range[2]
    THEN 0
    ELSE 10 * Min(Abs(block_val - target_range[1]),
                  Abs(block_val - target_range[2]))

\* block_vibes is the data of one dictionary entry:
\*   [isdict |-> BOOLEAN, vals |-> [ScaleSet -> value], vowel_first |-> "0", "1" or "none"]
EmptyDict(block_vibes) ==
    /\ block_vibes.vowel_first = "none"
    /\ \A k \in ScaleSet : block_vibes.vals[k] = NoValue

\* the call raises: a value that is no number meets abs() or a comparison
VibeRaises(block_vibes) ==
    /\ block_vibes.isdict
    /\ ~EmptyDict(block_vibes)
    /\ \E k \in ScaleSet : block_vibes.vals[k] = BadValue

\* the float returned, in units (defined when the call does not raise)
score_vibe_match(block_vibes, target_vibes) ==
    IF ~block_vibes.isdict \/ EmptyDict(block_vibes)
    THEN Points(50)
    ELSE LET total_distance ==
                 SumSeq([i \in 1..Len(Scales) |->
                            ScaleDistance10(block_vibes.vals[Scales[i]],
                                            target_vibes[Scales[i]])])
             \* min(total_distance / max_total_distance, 1.0), times 10 * 45
             capped == Min(total_distance, 10 * MaxTotalDistance)
         IN  (100 * Unit * (10 * MaxTotalDistance - capped))
                 \div (10 * MaxTotalDistance)

-----------------------------------------------------------------------------
(* score_compatibility: one operator per rule, each the amount it subtracts *)
(* (or adds), then the function itself                                      *)

\* direct repetition, else A-B-A-B sequence repetition
RepetitionPenalty(last_block, next_block, used, cfg) ==
    IF Lower(last_block) = Lower(next_block)
    THEN Points(cfg.penalty_repetition_direct_block)
    ELSE IF /\ Len(used) >= 2
            /\ Lower(used[Len(used) - 1]) = Lower(last_block)
            /\ Lower(used[Len(used)]) = Lower(next_block)
    THEN Points(cfg.penalty_repetition_sequence)
    ELSE 0

\* vowel and consonant clusters in the 4-character boundary
BoundaryClusterPenalty(last_block, next_block, cfg) ==
    LET boundary_4char == Lower(LastChars(last_block, 2) \o FirstChars(next_block, 2))
        boundary_pattern == get_vowel_consonant_pattern(boundary_4char)
    IN  (IF Contains(boundary_pattern, <<"V", "V", "V">>)
         THEN Points(cfg.penalty_boundary_vowels_3plus) ELSE 0)
        +
        (IF Contains(boundary_pattern, <<"C", "C", "C", "C">>)
         THEN Points(cfg.penalty_boundary_consonants_4plus)
         ELSE IF Contains(boundary_pattern, <<"C", "C", "C">>)
         THEN Points(cfg.penalty_boundary_consonants_3)
         ELSE 0)

\* three identical letters in a row over the join
TripleLetterPenalty(last_block, next_block, cfg) ==
    LET n == Len(last_block)
        is_triple ==
            \/ n >= 2 /\ LowerChar(last_block[n - 1]) = LowerChar(last_block[n])
            \/ Len(next_block) >= 2
                 /\ LowerChar(next_block[1]) = LowerChar(next_block[2])
    IN  IF LowerChar(last_block[n]) = LowerChar(next_block[1]) /\ is_triple
        THEN Points(cfg.penalty_repetition_triple_letter)
        ELSE 0

\* the lengths i in 1..3 at which the end of last_block repeats as the start
\* of next_block
SyllableMatches(last_block, next_block) ==
    {i \in 1..Min(Min(Len(last_block), Len(next_block)), 3) :
        Lower(LastChars(last_block, i)) = Lower(FirstChars(next_block, i))}

\* the loop breaks at the first (smallest) matching length
SyllablePenalty(last_block, next_block, cfg) ==
    LET matches == SyllableMatches(last_block, next_block)
    IN  IF matches = {}
        THEN 0
        ELSE LET i == CHOOSE m \in matches : \A k \in matches : m <= k
             IN  IF i = 1 /\ InChars(LowerChar(last_block[Len(last_block)]),
                                     <<"l", "r", "s", "n", "m", "e", "o">>)
                 THEN Scaled(cfg.penalty_repetition_syllable,
                             cfg.penalty_repetition_syllable_common_multiplier)
                 ELSE Points(cfg.penalty_repetition_syllable)

\* [c for c in text.lower() if is_vowel(c)]
VowelsOf(text) == SelectSeq(Lower(text), is_vowel)

VowelAcrossBoundaryPenalty(last_block, next_block, cfg) ==
    LET last_vowels == VowelsOf(last_block)
        first_vowels == VowelsOf(next_block)
    IN  IF /\ last_vowels # <<>>
           /\ first_vowels # <<>>
           /\ last_vowels[Len(last_vowels)] = first_vowels[1]
        THEN Points(cfg.penalty_repetition_vowel_across_boundary)
        ELSE 0

hard_stops == <<"k", "p", "t", "g", "b", "d">>

liquids_nasals == <<"l", "r", "m", "n">>

awkward_vowel_pairs_strict ==
    {<<"a", "a">>, <<"i", "i">>, <<"u", "u">>, <<"a", "o">>, <<"i", "u">>,
     <<"o", "e">>, <<"o", "i">>, <<"u", "a">>, <<"u", "e">>, <<"u", "i">>,
     <<"u", "o">>}

AwkwardVowelPenalty(last_block, next_block, cfg) ==
    LET last_char_join == LowerChar(last_block[Len(last_block)])
        next_char_join == LowerChar(next_block[1])
    IN  IF /\ is_vowel(last_char_join)
           /\ is_vowel(next_char_join)
           /\ <<last_char_join, next_char_join>> \in awkward_vowel_pairs_strict
        THEN Points(cfg.penalty_boundary_awkward_vowel_join)
        ELSE 0

HardStopJoinPenalty(last_block, next_block, cfg) ==
    LET last_char_join == LowerChar(last_block[Len(last_block)])
        next_char_join == LowerChar(next_block[1])
    IN  IF /\ ~is_vowel(last_char_join)
           /\ ~is_vowel(next_char_join)
           /\ InChars(last_char_join, hard_stops)
           /\ InChars(next_char_join, hard_stops \o <<"f", "s">>)
        THEN Points(cfg.penalty_boundary_hard_stop_join)
        ELSE 0

ClusterHardStopPenalty(last_block, next_block, cfg) ==
    LET n == Len(last_block)
        next_char_join == LowerChar(next_block[1])
    IN  IF /\ n >= 2
           /\ ~is_vowel(last_block[n])
           /\ ~is_vowel(last_block[n - 1])
           /\ InChars(next_char_join, hard_stops)
           /\ ~InChars(LowerChar(last_block[n]), <<"l", "r", "m", "n", "s">>)
        THEN Points(cfg.penalty_boundary_cluster_hard_stop)
        ELSE 0

\* liquid or nasal consonant followed by a vowel
SmoothTransitionBonus(last_block, next_block, cfg) ==
    IF /\ InChars(LowerChar(last_block[Len(last_block)]), liquids_nasals)
       /\ is_vowel(LowerChar(next_block[1]))
    THEN Points(cfg.bonus_smooth_transition)
    ELSE 0

\* pair_penalty_total * penalty_letter_pairs_factor, the total in tenths
LetterPairPenalty(last_block, next_block, cfg, table) ==
    IF cfg.penalty_letter_pairs_factor > 0
    THEN Scaled(cfg.penalty_letter_pairs_factor,
                calculate_letter_pair_penalties(table, last_block \o next_block))
    ELSE 0

\* the score before the final max(0.0, score)
RawCompatibility(last_block, next_block, used, cfg, table) ==
    Points(100)
    - RepetitionPenalty(last_block, next_block, used, cfg)
    - BoundaryClusterPenalty(last_block, next_block, cfg)
    - TripleLetterPenalty(last_block, next_block, cfg)
    - SyllablePenalty(last_block, next_block, cfg)
    - VowelAcrossBoundaryPenalty(last_block, next_block, cfg)
    - AwkwardVowelPenalty(last_block, next_block, cfg)
    - HardStopJoinPenalty(last_block, next_block, cfg)
    - ClusterHardStopPenalty(last_block, next_block, cfg)
    + SmoothTransitionBonus(last_block, next_block, cfg)
    - LetterPairPenalty(last_block, next_block, cfg, table)

score_compatibility(last_block, next_block, used, cfg, table) ==
    IF next_block = <<>>
    THEN 0
    ELSE IF last_block = <<>>
    THEN Points(100)
    ELSE Max(0, RawCompatibility(last_block, next_block, used, cfg, table))

-----------------------------------------------------------------------------
(* PatternBlocks._get_scored_block_internal *)

\* vowel_first_pref is None; otherwise the preference is a probability in
\* hundredths (True is 100, False is 0: a bool is an int to isinstance)
NoPref == -1

\* block_type.capitalize()
Capitalized(block_type) ==
    CASE block_type = "prefix" -> "Prefix"
      [] block_type = "middle" -> "Middle"
      [] block_type = "suffix" -> "Suffix"

\* f"Err{block_type.capitalize()}{what}": a text that starts with "Err"
ErrText(block_type, what) == <<"E", "r", "r", Capitalized(block_type), what>>

\* value.startswith("Err")
StartsWithErr(text) == FirstChars(text, 3) = <<"E", "r", "r">>

\* the empty score dict {} returned beside an error
NoScore ==
    [has |-> FALSE, vibe_score |-> 0, compatibility_score |-> 0,
     total_score |-> 0, was_forced |-> FALSE, pool_size |-> 0,
     best_available_score |-> 0]

\* a variant drawn with <= in place of <: a preference of 0 can draw "1"
VowelFirstDraws_Inclusive(block_type, vowel_first_pref) ==
    IF block_type = "prefix" /\ vowel_first_pref # NoPref
    THEN (IF vowel_first_pref >= 0 THEN {"1"} ELSE {})
         \cup (IF vowel_first_pref < 100 THEN {"0"} ELSE {})
    ELSE {"all"}

\* the outcomes random.random() < vowel_first_pref can have: which prefixes
\* the filter keeps ("all": no filter is applied)
VowelFirstDraws(block_type, vowel_first_pref) ==
    IF block_type = "prefix" /\ vowel_first_pref # NoPref
    THEN (IF vowel_first_pref > 0 THEN {"1"} ELSE {})
         \cup (IF vowel_first_pref < 100 THEN {"0"} ELSE {})
    ELSE {"all"}

\* a variant that never filters
InitialCandidates_Unfiltered(block_type_dict, vf_str) == block_type_dict

\* initial_candidates, in dictionary order
InitialCandidates(block_type_dict, vf_str) ==
    IF vf_str = "all"
    THEN block_type_dict
    ELSE LET Keeps(e) == e.data.isdict /\ e.data.vowel_first = vf_str
             kept == SelectSeq(block_type_dict, Keeps)
         IN  IF kept = <<>> THEN block_type_dict ELSE kept

\* a variant in which a first block starts from nothing
CandidateCompatibility_ZeroStart(block_text, used, cfg, table) ==
    IF used = <<>> \/ used[Len(used)] = <<>>
    THEN Points(0)
    ELSE score_compatibility(used[Len(used)], block_text, used, cfg, table)

\* compatibility_score of one candidate
CandidateCompatibility(block_text, used, cfg, table) ==
    IF used = <<>> \/ used[Len(used)] = <<>>
    THEN Points(100)
    ELSE score_compatibility(used[Len(used)], block_text, used, cfg, table)

\* total_score, in 1/100 of a unit (the weights are hundredths)
TotalScore(vibe_score, compatibility_score, cfg) ==
    cfg.weight_vibe * vibe_score + cfg.weight_compatibility * compatibility_score

\* a variant in which scoring a dict never raises
Scores_AnyDict(e) == e.data.isdict

\* the candidate is scored: its data is a dict and scoring it does not raise
Scores(e) == e.data.isdict /\ ~VibeRaises(e.data)

\* candidate_scores with candidate_score_details, in scoring order
CandidateScores(candidates, used, target_vibes, cfg, table) ==
    LET scoring == SelectSeq(candidates, Scores)
    IN  [i \in 1..Len(scoring) |->
            LET vibe == score_vibe_match(scoring[i].data, target_vibes)
                compat == CandidateCompatibility(scoring[i].text, used, cfg, table)
            IN  [text |-> scoring[i].text,
                 vibe_score |-> vibe,
                 compatibility_score |-> compat,
                 total_score |-> TotalScore(vibe, compat, cfg)]]

\* list.sort(key=score, reverse=True): stable, equal scores keep their order
RECURSIVE InsertDescending(_, _)
InsertDescending(x, sorted) ==
    IF sorted = <<>>
    THEN <<x>>
    ELSE IF sorted[1].total_score >= x.total_score
    THEN <<sorted[1]>> \o InsertDescending(x, Tail(sorted))
    ELSE <<x>> \o sorted

\* a variant that leaves the list in scoring order
SortDescending_Unsorted(s) == s

RECURSIVE SortDescending(_)
SortDescending(s) ==
    IF s = <<>>
    THEN <<>>
    ELSE InsertDescending(s[Len(s)], SortDescending(SubSeq(s, 1, Len(s) - 1)))

\* the orders random.shuffle can leave a list in
Shuffles(s) ==
    {[i \in 1..Len(s) |-> s[p[i]]] : p \in Permutations(1..Len(s))}

\* the orders of candidate_scores when the top candidates are cut: the
\* prefix list is shuffled after the sort
OrdersAtCut(block_type, sorted) ==
    IF block_type = "prefix" THEN Shuffles(sorted) ELSE {sorted}

\* best_score < scoring_config.low_score_threshold
IsLowScore(best_score, cfg) == best_score < 100 * Points(cfg.low_score_threshold)

ScoreData(c, forced, size, best) ==
    [has |-> TRUE, vibe_score |-> c.vibe_score,
     compatibility_score |-> c.compatibility_score,
     total_score |-> c.total_score, was_forced |-> forced,
     pool_size |-> size, best_available_score |-> best]

\* one outcome of the selector
Outcome(ret, score, vf_str, candidates, scored, top, forced) ==
    [ret |-> ret, score |-> score, draw |-> vf_str,
     candidates |-> candidates, scored |-> scored, top |-> top,
     forced |-> forced]

\* everything a call can return (with return_score=True), with what it scored
GetScoredBlockInternal(block_type, block_type_dict, used, target_vibes, vowel_first_pref, cfg, table) ==
    IF block_type_dict = <<>>
    THEN {Outcome(ErrText(block_type, "DictEmpty"), NoScore, "all",
                  <<>>, <<>>, <<>>, FALSE)}
    ELSE UNION {
        LET candidates == InitialCandidates(block_type_dict, vf_str)
            candidate_scores ==
                CandidateScores(candidates, used, target_vibes, cfg, table)
            sorted == SortDescending(candidate_scores)
        IN  IF candidate_scores = <<>>
            THEN {Outcome(ErrText(block_type, "ScoringFailed"), NoScore, vf_str,
                          candidates, <<>>, <<>>, FALSE)}
            ELSE IF IsLowScore(sorted[1].total_score, cfg)
            THEN {Outcome(sorted[1].text,
                          ScoreData(sorted[1], TRUE, Len(sorted),
                                    sorted[1].total_score),
                          vf_str, candidates, sorted, <<>>, TRUE)}
            ELSE LET pool_size == Min(cfg.top_n_candidates, Len(sorted))
                 IN  {Outcome(top[k].text,
                              ScoreData(top[k], FALSE, pool_size,
                                        sorted[1].total_score),
                              vf_str, candidates, sorted, top, FALSE) :
                        <<top, k>> \in
                          {<<SubSeq(order, 1, pool_size), j>> :
                             order \in OrdersAtCut(block_type, sorted),
                             j \in 1..pool_size}}
        : vf_str \in VowelFirstDraws(block_type, vowel_first_pref)}

-----------------------------------------------------------------------------
(* add_special_features *)

\* s[i] with the code's 0-based index
At(s, i) == s[i + 1]

\* char in "'- "
IsSpecial(char) == char \in {"'", "-", " "}

\* the feature characters in the order of the scores dict
FeatureChars == <<"'", "-", " ">>

\* block_boundaries: the cumulative lengths of blocks_used[:-1]
BlockBoundaries(used) ==
    {Len(Join(SubSeq(used, 1, k))) : k \in 1..(Len(used) - 1)}

\* the position is skipped: a special character is there or next to it
NearSpecial(nm, i) ==
    \/ IsSpecial(At(nm, i))
    \/ IsSpecial(At(nm, i - 1))
    \/ (i + 1 < Len(nm) /\ IsSpecial(At(nm, i + 1)))

\* the apostrophe's score without the -999 of a disabled type
ApostropheScore_AlwaysAllowed(nm, i, cfg, block_boundaries) ==
    (IF i \in block_boundaries THEN 5 ELSE 0)
    + (IF ~is_vowel(At(nm, i - 1)) THEN 4 ELSE 0)
    + (IF InChars(LowerChar(At(nm, i - 1)), <<"l", "r", "n", "t", "d", "s">>)
       THEN 2 ELSE 0)
    + (IF is_vowel(At(nm, i)) THEN 3 ELSE 0)

ApostropheScore(nm, i, cfg, block_boundaries) ==
    (IF cfg.allow_apostrophes THEN 0 ELSE -999)
    + (IF i \in block_boundaries THEN 5 ELSE 0)
    + (IF ~is_vowel(At(nm, i - 1)) THEN 4 ELSE 0)
    + (IF InChars(LowerChar(At(nm, i - 1)), <<"l", "r", "n", "t", "d", "s">>)
       THEN 2 ELSE 0)
    + (IF is_vowel(At(nm, i)) THEN 3 ELSE 0)

\* the hyphen's score without the bonus of a block boundary
HyphenScore_NoBoundaryBonus(nm, i, cfg, block_boundaries) ==
    LET is_syll_end_before ==
            i > 1 /\ ~is_vowel(At(nm, i - 1)) /\ is_vowel(At(nm, i - 2))
        is_syll_start_after ==
            i < Len(nm) - 1 /\ ~is_vowel(At(nm, i)) /\ is_vowel(At(nm, i + 1))
    IN  (IF cfg.allow_hyphens THEN 0 ELSE -999)
        + (IF is_syll_end_before THEN 3 ELSE 0)
        + (IF is_syll_start_after THEN 3 ELSE 0)
        + (IF is_syll_end_before /\ is_syll_start_after THEN 2 ELSE 0)
        + (IF Abs(i - (Len(nm) - i)) <= 3 THEN 3 ELSE 0)

HyphenScore(nm, i, cfg, block_boundaries) ==
    LET is_syll_end_before ==
            i > 1 /\ ~is_vowel(At(nm, i - 1)) /\ is_vowel(At(nm, i - 2))
        is_syll_start_after ==
            i < Len(nm) - 1 /\ ~is_vowel(At(nm, i)) /\ is_vowel(At(nm, i + 1))
    IN  (IF cfg.allow_hyphens THEN 0 ELSE -999)
        + (IF i \in block_boundaries THEN 7 ELSE 0)
        + (IF is_syll_end_before THEN 3 ELSE 0)
        + (IF is_syll_start_after THEN 3 ELSE 0)
        + (IF is_syll_end_before /\ is_syll_start_after THEN 2 ELSE 0)
        + (IF Abs(i - (Len(nm) - i)) <= 3 THEN 3 ELSE 0)

SpaceScore(nm, i, cfg, block_boundaries) ==
    (IF cfg.allow_spaces THEN 0 ELSE -999)
    + (IF i \in block_boundaries THEN 6 ELSE 0)
    + (IF i >= 3 /\ Len(nm) - i >= 3 THEN 5 ELSE 0)
    + (IF i >= 4 /\ ~is_vowel(At(nm, i - 1)) THEN 2 ELSE 0)
    + (IF is_vowel(At(nm, i - 1)) /\ ~is_vowel(At(nm, i)) THEN -4 ELSE 0)

\* max(scores.items(), key=score): the first of the best, in dict order
BestFeature(nm, i, cfg, block_boundaries) ==
    LET scores == <<ApostropheScore(nm, i, cfg, block_boundaries),
                    HyphenScore(nm, i, cfg, block_boundaries),
                    SpaceScore(nm, i, cfg, block_boundaries)>>
        k == CHOOSE j \in 1..3 :
                /\ \A m \in 1..3 : scores[j] >= scores[m]
                /\ \A m \in 1..(j - 1) : scores[m] < scores[j]
    IN  [pos |-> i, char |-> FeatureChars[k], total_score |-> scores[k]]

\* breakpoints, in position order: range(1, len(name) - 1), score > 3
RECURSIVE BreakpointsFrom(_, _, _, _)
BreakpointsFrom(nm, i, cfg, block_boundaries) ==
    IF i >= Len(nm) - 1
    THEN <<>>
    ELSE LET rest == BreakpointsFrom(nm, i + 1, cfg, block_boundaries)
             best == BestFeature(nm, i, cfg, block_boundaries)
         IN  IF NearSpecial(nm, i) \/ ~(best.total_score > 3)
             THEN rest
             ELSE <<best>> \o rest

Breakpoints(nm, cfg, used) == BreakpointsFrom(nm, 1, cfg, BlockBoundaries(used))

\* list.insert(pos, char)
InsertAt(s, pos, char) ==
    SubSeq(s, 1, Min(pos, Len(s))) \o <<char>> \o SubSeq(s, Min(pos, Len(s)) + 1, Len(s))

\* adjusted_pos = orig_pos + sum(1 for idx in inserted_indices if idx < orig_pos)
AdjustedPos(orig_pos, inserted_indices) ==
    orig_pos + Cardinality({idx \in inserted_indices : idx < orig_pos})

\* a variant without the final check
TooClose_Never(result_list, adjusted_pos) == FALSE

\* too_close: a special character at adjusted_pos - 1, adjusted_pos or adjusted_pos + 1
TooClose(result_list, adjusted_pos) ==
    \E check_idx \in Max(0, adjusted_pos - 1)..(Min(Len(result_list), adjusted_pos + 2) - 1) :
        IsSpecial(At(result_list, check_idx))

\* the insertion loop over the sorted breakpoints; st is
\*   [text, added_count, inserted_indices, placed], placed the sequence of
\*   [pos (scored), char, at (where it was inserted)]
RECURSIVE InsertFeatures(_, _, _)
InsertFeatures(breakpoints, st, max_special_features) ==
    IF breakpoints = <<>> \/ st.added_count >= max_special_features
    THEN st
    ELSE LET bp == breakpoints[1]
             adjusted_pos == AdjustedPos(bp.pos, st.inserted_indices)
         IN  IF TooClose(st.text, adjusted_pos)
             THEN InsertFeatures(Tail(breakpoints), st, max_special_features)
             ELSE InsertFeatures(
                      Tail(breakpoints),
                      [text |-> InsertAt(st.text, adjusted_pos, bp.char),
                       added_count |-> st.added_count + 1,
                       inserted_indices |-> st.inserted_indices \cup {adjusted_pos},
                       placed |-> Append(st.placed,
                                         [pos |-> bp.pos, char |-> bp.char,
                                          at |-> adjusted_pos])],
                      max_special_features)

Untouched(nm) ==
    [text |-> nm, added_count |-> 0, inserted_indices |-> {}, placed |-> <<>>]

\* the pass once the probability roll has let it run
SpecialFeaturesPass(nm, cfg, used) ==
    InsertFeatures(SortDescending(Breakpoints(nm, cfg, used)), Untouched(nm),
                   cfg.max_special_features)

\* every value add_special_features can return (with what it inserted);
\* probabilities are hundredths and random.random() is in [0, 1)
add_special_features(nm, cfg, used) ==
    IF cfg.special_features <= 0 \/ cfg.max_special_features <= 0
    THEN {Untouched(nm)}
    ELSE IF ~(cfg.allow_apostrophes \/ cfg.allow_hyphens \/ cfg.allow_spaces)
    THEN {Untouched(nm)}
    ELSE (IF cfg.special_features < 100 THEN {Untouched(nm)} ELSE {})
         \cup {SpecialFeaturesPass(nm, cfg, used)}

-----------------------------------------------------------------------------
(* apply_character_modifications *)

\* diacritic_map: the accented variants of a character ({} when it has none)
DiacriticVariants(char) ==
    CASE char = "a" -> {"a1", "a2", "a3", "a4", "a5"}
      [] char = "e" -> {"e1", "e2", "e3", "e4"}
      [] char = "i" -> {"i1", "i2", "i3", "i4"}
      [] char = "o" -> {"o1", "o2", "o3", "o4", "o5"}
      [] char = "u" -> {"u1", "u2", "u3", "u4"}
      [] char = "y" -> {"y1", "y2"}
      [] char = "A" -> {"A1", "A2", "A3", "A4", "A5"}
      [] char = "E" -> {"E1", "E2", "E3", "E4"}
      [] char = "I" -> {"I1", "I2", "I3", "I4"}
      [] char = "O" -> {"O1", "O2", "O3", "O4", "O5"}
      [] char = "U" -> {"U1", "U2", "U3", "U4"}
      [] char = "Y" -> {"Y1", "Y2"}
      [] OTHER -> {}

\* ligature_map in the order sorted(keys, key=len, reverse=True) walks it:
\* every key has two characters, so the stable sort keeps the dict order
LigaturePatterns ==
    <<[pattern |-> <<"a", "e">>, glyph |-> "lig-ae"],
      [pattern |-> <<"o", "e">>, glyph |-> "lig-oe"],
      [pattern |-> <<"t", "h">>, glyph |-> "lig-th"],
      [pattern |-> <<"d", "h">>, glyph |-> "lig-dh"],
      [pattern |-> <<"s", "s">>, glyph |-> "lig-ss"],
      [pattern |-> <<"A", "E">>, glyph |-> "LIG-AE"],
      [pattern |-> <<"O", "E">>, glyph |-> "LIG-OE"],
      [pattern |-> <<"A", "e">>, glyph |-> "LIG-AE"],
      [pattern |-> <<"O", "e">>, glyph |-> "LIG-OE"],
      [pattern |-> <<"T", "h">>, glyph |-> "LIG-TH"],
      [pattern |-> <<"D", "h">>, glyph |-> "LIG-DH"]>>

LigatureGlyphs == {LigaturePatterns[k].glyph : k \in 1..Len(LigaturePatterns)}

\* a variant that protects the special characters alone
ProtectedPositions_SpecialOnly(nm) ==
    {i \in 0..(Len(nm) - 1) : IsSpecial(At(nm, i))}

\* protected_positions: within one character of a special character
ProtectedPositions(nm) ==
    {p \in 0..(Len(nm) - 1) :
        \E i \in 0..(Len(nm) - 1) :
            IsSpecial(At(nm, i)) /\ Max(0, i - 1) <= p /\ p < Min(Len(nm), i + 2)}

\* the diacritic opportunities, in position order; scores are counted in
\* halves (the last position costs 0.5)
RECURSIVE DiacriticOpportunitiesFrom(_, _, _)
DiacriticOpportunitiesFrom(nm, i, protected_positions) ==
    IF i >= Len(nm)
    THEN <<>>
    ELSE LET rest == DiacriticOpportunitiesFrom(nm, i + 1, protected_positions)
             total_score ==
                 2 * 5
                 - (IF i = 0 THEN 2 ELSE 0)
                 - (IF i = Len(nm) - 1 THEN 1 ELSE 0)
                 + (IF i > 0 /\ ~is_vowel(At(nm, i - 1)) THEN 2 ELSE 0)
         IN  IF i \in protected_positions \/ DiacriticVariants(At(nm, i)) = {}
             THEN rest
             ELSE <<[pos |-> i, length |-> 1, mod_type |-> "diacritic",
                     original |-> <<At(nm, i)>>, total_score |-> total_score]>>
                  \o rest

\* name.find(pattern_key, start_index): the first index at or after
\* start_index where the pattern stands, -1 when there is none
Find(nm, pattern, start_index) ==
    LET hits == {j \in start_index..(Len(nm) - Len(pattern)) :
                    SubSeq(nm, j + 1, j + Len(pattern)) = pattern}
    IN  IF hits = {} THEN -1 ELSE CHOOSE j \in hits : \A k \in hits : j <= k

\* the while loop over one pattern; acc is [found, covered]
RECURSIVE LigatureScan(_, _, _, _, _)
LigatureScan(nm, lig, start_index, protected_positions, acc) ==
    IF start_index >= Len(nm)
    THEN acc
    ELSE LET found_index == Find(nm, lig.pattern, start_index)
             pattern_len == Len(lig.pattern)
             current_indices == found_index..(found_index + pattern_len - 1)
             total_score ==
                 2 * 7
                 - (IF found_index = 0 THEN 2 * 2 ELSE 0)
                 - (IF found_index + pattern_len >= Len(nm) - 1 THEN 2 ELSE 0)
         IN  IF found_index = -1
             THEN acc
             ELSE IF \/ current_indices \cap protected_positions # {}
                     \/ current_indices \cap acc.covered # {}
             THEN LigatureScan(nm, lig, found_index + 1, protected_positions, acc)
             ELSE LigatureScan(
                      nm, lig, found_index + pattern_len, protected_positions,
                      [found |-> Append(acc.found,
                                        [pos |-> found_index,
                                         length |-> pattern_len,
                                         mod_type |-> "ligature",
                                         original |-> lig.pattern,
                                         total_score |-> total_score]),
                       covered |-> acc.covered \cup current_indices])

\* the for loop over the patterns
RECURSIVE LigatureOpportunitiesFrom(_, _, _, _)
LigatureOpportunitiesFrom(nm, k, protected_positions, acc) ==
    IF k > Len(LigaturePatterns)
    THEN acc.found
    ELSE LigatureOpportunitiesFrom(
             nm, k + 1, protected_positions,
             LigatureScan(nm, LigaturePatterns[k], 0, protected_positions, acc))

\* modification_opportunities before the sort
ModificationOpportunities(nm, cfg) ==
    LET protected_positions == ProtectedPositions(nm)
    IN  (IF cfg.allow_diacritics
         THEN DiacriticOpportunitiesFrom(nm, 0, protected_positions)
         ELSE <<>>)
        \o
        (IF cfg.allow_ligatures
         THEN LigatureOpportunitiesFrom(nm, 1, protected_positions,
                                        [found |-> <<>>, covered |-> {}])
         ELSE <<>>)

\* the apply loop without the overlap check
RECURSIVE ApplyLoop_NoOverlapCheck(_, _, _)
ApplyLoop_NoOverlapCheck(opportunities, st, max_modifications) ==
    IF opportunities = <<>> \/ Len(st.applied) >= max_modifications
    THEN st
    ELSE LET op == opportunities[1]
             current_indices == op.pos..(op.pos + op.length - 1)
         IN  ApplyLoop_NoOverlapCheck(
                 Tail(opportunities),
                 [applied |-> Append(st.applied, op),
                  modified_indices |-> st.modified_indices \cup current_indices],
                 max_modifications)

\* the opportunities the apply loop takes, in the order it takes them;
\* st is [applied, modified_indices]
RECURSIVE ApplyLoop(_, _, _)
ApplyLoop(opportunities, st, max_modifications) ==
    IF opportunities = <<>> \/ Len(st.applied) >= max_modifications
    THEN st
    ELSE LET op == opportunities[1]
             current_indices == op.pos..(op.pos + op.length - 1)
         IN  IF current_indices \cap st.modified_indices # {}
             THEN ApplyLoop(Tail(opportunities), st, max_modifications)
             ELSE ApplyLoop(
                      Tail(opportunities),
                      [applied |-> Append(st.applied, op),
                       modified_indices |-> st.modified_indices \cup current_indices],
                      max_modifications)

AppliedModifications(nm, cfg) ==
    ApplyLoop(SortDescending(ModificationOpportunities(nm, cfg)),
              [applied |-> <<>>, modified_indices |-> {}],
              cfg.max_modifications).applied

\* ligature_map[original]
LigatureGlyph(original) ==
    LigaturePatterns[CHOOSE k \in 1..Len(LigaturePatterns) :
                        LigaturePatterns[k].pattern = original].glyph

\* the replacements of one applied opportunity: random.choice over the
\* variants of a vowel, the one glyph of a ligature
Replacements(op) ==
    IF op.mod_type = "diacritic"
    THEN DiacriticVariants(op.original[1])
    ELSE {LigatureGlyph(op.original)}

\* the result list with the applied opportunities written in: chosen[k] is
\* the replacement of applied[k]; "" marks a position to be filtered out
ModifiedList(nm, applied, chosen) ==
    [j \in 1..Len(nm) |->
        IF \E k \in 1..Len(applied) : applied[k].pos = j - 1
        THEN chosen[CHOOSE k \in 1..Len(applied) : applied[k].pos = j - 1]
        ELSE IF \E k \in 1..Len(applied) :
                    applied[k].pos < j - 1 /\ j - 1 < applied[k].pos + applied[k].length
        THEN ""
        ELSE nm[j]]

NotEmpty(char) == char # ""

\* ''.join(filter(None, result))
FilterJoin(result_list) == SelectSeq(result_list, NotEmpty)

\* all ways to choose one replacement per applied opportunity
RECURSIVE ChoiceSeqs(_)
ChoiceSeqs(applied) ==
    IF applied = <<>>
    THEN {<<>>}
    ELSE {<<r>> \o rest : r \in Replacements(applied[1]),
                          rest \in ChoiceSeqs(Tail(applied))}

UnmodifiedName(nm) == [text |-> nm, applied |-> <<>>]

\* every value apply_character_modifications can return (with what it applied)
apply_character_modifications(nm, cfg) ==
    IF cfg.character_modifications <= 0 \/ cfg.max_modifications <= 0
    THEN {UnmodifiedName(nm)}
    ELSE IF ~(cfg.allow_diacritics \/ cfg.allow_ligatures)
    THEN {UnmodifiedName(nm)}
    ELSE (IF cfg.character_modifications < 100 THEN {UnmodifiedName(nm)} ELSE {})
         \cup
         LET applied == AppliedModifications(nm, cfg)
         IN  {[text |-> FilterJoin(ModifiedList(nm, applied, chosen)),
               applied |-> applied] : chosen \in ChoiceSeqs(applied)}

-----------------------------------------------------------------------------
(* fix_capitalization *)

\* str.upper() of one character, as the characters it yields
UpperChar(c) ==
    IF c = "lig-ss"
    THEN <<"S", "S">>
    ELSE IF \E p \in CasePairs : p[1] = c
    THEN <<(CHOOSE p \in CasePairs : p[1] = c)[2]>>
    ELSE <<c>>

\* parts: the name split at "-" and " ", the separators kept as parts
RECURSIVE SplitParts(_, _)
SplitParts(nm, current_part) ==
    IF nm = <<>>
    THEN IF current_part # <<>> THEN <<current_part>> ELSE <<>>
    ELSE IF nm[1] \in {"-", " "}
    THEN <<current_part, <<nm[1]>>>> \o SplitParts(Tail(nm), <<>>)
    ELSE SplitParts(Tail(nm), Append(current_part, nm[1]))

\* part in "- "
InDashSpace(part) == Contains(<<"-", " ">>, part)

\* a variant that swaps the case of the first character
CapitalizePart_SwapCase(part) ==
    IF part # <<>> /\ ~InDashSpace(part)
    THEN (IF LowerChar(part[1]) # part[1]
          THEN <<LowerChar(part[1])>>
          ELSE UpperChar(part[1])) \o Tail(part)
    ELSE part

CapitalizePart(part) ==
    IF part # <<>> /\ ~InDashSpace(part)
    THEN UpperChar(part[1]) \o Tail(part)
    ELSE part

fix_capitalization(nm) ==
    IF nm = <<>>
    THEN <<>>
    ELSE LET parts == SplitParts(nm, <<>>)
         IN  Join([k \in 1..Len(parts) |-> CapitalizePart(parts[k])])

-----------------------------------------------------------------------------
(* Block data: what the CSV files of a data directory load to *)

\* vibe_data of one loaded row: five integers and, for a prefix, the
\* vowel_first flag
Vibes(ge, er, ce, wp, fm, vf) ==
    [isdict |-> TRUE,
     vals |-> [k \in ScaleSet |->
                 CASE k = "good_evil" -> ge
                   [] k = "elegant_rough" -> er
                   [] k = "common_exotic" -> ce
                   [] k = "weak_powerful" -> wp
                   [] k = "fem_masc" -> fm],
     vowel_first |-> vf]

Entry(text, data) == [text |-> text, data |-> data]

NoBlocks == [prefixes |-> <<>>, middles |-> <<>>, suffixes |-> <<>>]

ThemeNames == {"default", "elf"}

DiskNames == {"full", "partial", "bare"}

\* the blocks the files of data/<theme>/ hold on a disk; "partial" has no
\* middles.csv anywhere and no elf directory, "bare" has no block file at all
ThemeFiles(dir, theme_name) ==
    IF dir = "bare" \/ (dir = "partial" /\ theme_name # "default")
    THEN NoBlocks
    ELSE IF theme_name = "default"
    THEN [prefixes |->
              <<Entry(<<"K", "o", "r">>, Vibes(7, 7, 3, 8, 8, "0")),
                Entry(<<"a", "l">>, Vibes(2, 2, 4, 4, 3, "1")),
                Entry(<<"T", "h", "a">>, Vibes(4, 3, 6, 6, 5, "0")),
                Entry(<<"E", "l">>, Vibes(3, 1, 5, 5, 2, "1"))>>,
          middles |->
              IF dir = "partial"
              THEN <<>>
              ELSE <<Entry(<<"a", "n">>, Vibes(3, 3, 3, 3, 3, "none")),
                     Entry(<<"t", "h">>, Vibes(6, 6, 6, 6, 6, "none")),
                     Entry(<<"E", "r", "r", "a">>, Vibes(2, 2, 2, 2, 2, "none"))>>,
          suffixes |->
              <<Entry(<<"d", "o", "r">>, Vibes(7, 6, 4, 7, 8, "none")),
                Entry(<<"e", "s", "s">>, Vibes(2, 2, 5, 3, 1, "none")),
                Entry(<<"a", "e", "l">>, Vibes(1, 2, 7, 5, 4, "none")),
                Entry(<<"k", "o", "r">>, Vibes(8, 8, 3, 8, 9, "none"))>>]
    ELSE IF theme_name = "elf"
    THEN [prefixes |->
              <<Entry(<<"A", "e">>, Vibes(1, 1, 6, 5, 3, "1")),
                Entry(<<"L", "i", "n">>, Vibes(2, 1, 5, 4, 2, "0")),
                Entry(<<"S", "i", "l">>, Vibes(3, 2, 6, 5, 4, "0"))>>,
          middles |->
              <<Entry(<<"a", "r">>, Vibes(2, 2, 5, 5, 5, "none")),
                Entry(<<"l", "i", "n">>, Vibes(2, 1, 5, 4, 2, "none"))>>,
          suffixes |->
              <<Entry(<<"i", "e", "l">>, Vibes(1, 1, 6, 4, 2, "none")),
                Entry(<<"t", "h", "a", "s">>, Vibes(5, 3, 7, 8, 7, "none")),
                Entry(<<"i", "n">>, Vibes(3, 3, 3, 3, 3, "none"))>>]
    ELSE NoBlocks

\* a variant that keeps the blocks of the default theme whatever the theme
LoadBlocks_DefaultTheme(dir, theme_name) == ThemeFiles(dir, "default")

\* PatternBlocks._get_theme_path and _load_blocks: a file the theme lacks is
\* read from the default theme
LoadBlocks(dir, theme_name) ==
    LET own == ThemeFiles(dir, theme_name)
        fallback == ThemeFiles(dir, "default")
        Pick(a, b) == IF a # <<>> THEN a ELSE b
    IN  [prefixes |-> Pick(own.prefixes, fallback.prefixes),
         middles |-> Pick(own.middles, fallback.middles),
         suffixes |-> Pick(own.suffixes, fallback.suffixes)]

\* module level: pattern_blocks = PatternBlocks(), None when nothing loaded
PatternBlocksLoaded(dir) == LoadBlocks(dir, "default") # NoBlocks

-----------------------------------------------------------------------------
(* FantasyNameConfig *)

FullRange == <<1, 10>>

DefaultTarget == [k \in ScaleSet |-> FullRange]

DefaultFantasyNameConfig ==
    [theme |-> "default",
     target |-> DefaultTarget,
     force_block_counts |-> <<2>>,
     block_counts_none |-> FALSE,
     vowel_first_prefix |-> 20,              \* hundredths
     special_features |-> 20,                \* hundredths
     max_special_features |-> 1,
     allow_apostrophes |-> FALSE,
     allow_hyphens |-> FALSE,
     allow_spaces |-> FALSE,
     character_modifications |-> 20,         \* hundredths
     max_modifications |-> 1,
     allow_diacritics |-> TRUE,
     allow_ligatures |-> TRUE]

-----------------------------------------------------------------------------
(* The module-level selector functions of patterns.py *)

ErrLoadFailed == <<"E", "r", "r", "LoadFailed">>

\* "ErrMiddleConfig", "ErrSuffixConfig"
ErrConfig(block_type) == <<"E", "r", "r", Capitalized(block_type), "Config">>

FailedOutcome(text) == Outcome(text, NoScore, "all", <<>>, <<>>, <<>>, FALSE)

\* the dictionary of a role
RoleDict(blocks, block_type) ==
    CASE block_type = "prefix" -> blocks.prefixes
      [] block_type = "middle" -> blocks.middles
      [] block_type = "suffix" -> blocks.suffixes

\* get_compatible_<block_type>_with_score(blocks_used, scoring_config, **kwargs)
\* on the blocks the theme switch has loaded: the outcomes of the call
GetCompatibleWithScore(block_type, blocks, used, cfg, scoring, table) ==
    IF block_type # "prefix" /\ used = <<>>
    THEN {FailedOutcome(ErrConfig(block_type))}
    ELSE GetScoredBlockInternal(
             block_type, RoleDict(blocks, block_type), used, cfg.target,
             IF block_type = "prefix" THEN cfg.vowel_first_prefix ELSE NoPref,
             scoring, table)

-----------------------------------------------------------------------------
(* generate_fantasy_name, step by step *)

NoResult == [returned |-> FALSE, name |-> <<>>, blocks |-> <<>>]

NoSel == [role |-> "none"]

NoForced == [seen |-> FALSE]

NoMetadata ==
    [block_count |-> 0, prefix_score |-> NoScore, middle_score |-> NoScore,
     suffix_score |-> NoScore, has_overall |-> FALSE,
     lowest_block_score |-> 0, score_sum |-> 0, score_count |-> 0,
     was_forced |-> FALSE]

\* f"ErrorGeneratingName({slot}:{reason})"
ErrorName(slot, reason) == <<"ErrorGeneratingName(", slot, ":">> \o reason \o <<")">>

IsErrorName(nm) == nm # <<>> /\ nm[1] = "ErrorGeneratingName("

\* FantasyNameConfig.update_context
update_context(used, new_block) ==
    IF new_block # <<>> /\ ~StartsWithErr(new_block)
    THEN Append(used, new_block)
    ELSE used

\* the block counts the call can draw
BlockCountDraws(cfg) ==
    IF ~cfg.block_counts_none
    THEN {cfg.force_block_counts[k] : k \in 1..Len(cfg.force_block_counts)}
    ELSE {2, 3}

\* FantasyNameConfig.set_theme, between two calls
SetTheme(t) ==
    /\ pc = "idle"
    /\ t # config.theme
    /\ config' = [config EXCEPT !.theme = t]
    /\ UNCHANGED <<data_dir, loaded, theme, prefixes, middles, suffixes,
                   pair_penalties, sc, blocks_used, pc, block_count, name,
                   features, mods_applied, metadata, sel, calls, result,
                   forced_log, last_outcome, fn_args, fn_ret>>

\* a variant that keeps the blocks of the previous name
reset_context_Keeps(used) == used

\* FantasyNameConfig.reset_context
reset_context(used) == <<>>

\* entry: reset_context and the draw of the block count
Call ==
    /\ pc = "idle"
    /\ blocks_used' = reset_context(blocks_used)
    /\ \E n \in BlockCountDraws(config) :
          /\ block_count' = n
          /\ metadata' = [NoMetadata EXCEPT !.block_count = n]
    /\ name' = <<>>
    /\ features' = Untouched(<<>>)
    /\ mods_applied' = <<>>
    /\ sel' = NoSel
    /\ calls' = <<>>
    /\ result' = NoResult
    /\ last_outcome' = IF ~result.returned THEN last_outcome
                       ELSE IF IsErrorName(result.name) THEN "error"
                       ELSE "name"
    /\ pc' = "prefix"
    /\ UNCHANGED <<data_dir, loaded, theme, prefixes, middles, suffixes,
                   pair_penalties, config, sc, forced_log, fn_args, fn_ret>>

\* a variant that checks the prefix only
SlotFailed_PrefixOnly(block_type, ret) ==
    block_type = "prefix" /\ StartsWithErr(ret)

\* if prefix.startswith("Err"): (and the same for middle and suffix)
SlotFailed(block_type, ret) == StartsWithErr(ret)

\* a variant that selects a middle for every name
AfterSlot_AlwaysMiddle(block_type, n) ==
    CASE block_type = "prefix" -> "middle"
      [] block_type = "middle" -> "suffix"
      [] block_type = "suffix" -> "features"

\* the position after a slot has been filled
AfterSlot(block_type, n) ==
    CASE block_type = "prefix" -> IF n = 3 THEN "middle" ELSE "suffix"
      [] block_type = "middle" -> "suffix"
      [] block_type = "suffix" -> "features"

SlotScores(md) ==
    <<md.prefix_score.total_score>>
    \o (IF md.middle_score.has THEN <<md.middle_score.total_score>> ELSE <<>>)
    \o <<md.suffix_score.total_score>>

\* the overall statistics written once the name is assembled
WithOverall(md, scoring) ==
    LET scores == SlotScores(md)
        lowest == CHOOSE x \in {scores[k] : k \in 1..Len(scores)} :
                     \A k \in 1..Len(scores) : x <= scores[k]
    IN  [md EXCEPT !.has_overall = TRUE,
                   !.score_sum = SumSeq(scores),
                   !.score_count = Len(scores),
                   !.lowest_block_score = lowest,
                   !.was_forced = IsLowScore(lowest, scoring)]

WithSlotScore(md, block_type, score) ==
    CASE block_type = "prefix" -> [md EXCEPT !.prefix_score = score]
      [] block_type = "middle" -> [md EXCEPT !.middle_score = score]
      [] block_type = "suffix" -> [md EXCEPT !.suffix_score = score]

\* one slot: _handle_theme_and_call_method switches the theme, the selector
\* runs, and the result is either an error return or a context update
SelectSlot(block_type) ==
    /\ pc = block_type
    /\ LET blocks == IF loaded
                     THEN LoadBlocks(data_dir, config.theme)
                     ELSE [prefixes |-> prefixes, middles |-> middles,
                           suffixes |-> suffixes]
           outcomes == IF ~loaded
                       THEN {FailedOutcome(ErrLoadFailed)}
                       ELSE GetCompatibleWithScore(block_type, blocks, blocks_used,
                                                   config, sc, pair_penalties)
       IN  /\ theme' = IF loaded THEN config.theme ELSE theme
           /\ prefixes' = blocks.prefixes
           /\ middles' = blocks.middles
           /\ suffixes' = blocks.suffixes
           /\ \E o \in outcomes :
                 LET md == WithSlotScore(metadata, block_type, o.score)
                     used == update_context(blocks_used, o.ret)
                 IN  /\ sel' = [role |-> block_type, used |-> blocks_used,
                                theme |-> theme', out |-> o]
                     /\ calls' = Append(calls, [fn |-> block_type, ret |-> o.ret])
                     /\ forced_log' =
                            IF o.forced /\ ~forced_log.seen
                            THEN [seen |-> TRUE, first_call |-> last_outcome = "none",
                                  role |-> block_type,
                                  used |-> blocks_used, theme |-> theme',
                                  draw |-> o.draw, ret |-> o.ret]
                            ELSE forced_log
                     /\ IF SlotFailed(block_type, o.ret)
                        THEN /\ result' = [returned |-> TRUE,
                                           name |-> ErrorName(Capitalized(block_type), o.ret),
                                           blocks |-> blocks_used]
                             /\ metadata' = md
                             /\ pc' = "idle"
                             /\ UNCHANGED <<blocks_used, name>>
                        ELSE /\ blocks_used' = used
                             /\ pc' = AfterSlot(block_type, block_count)
                             /\ IF block_type = "suffix"
                                THEN /\ name' = Join(used)
                                     /\ metadata' = WithOverall(md, sc)
                                ELSE /\ name' = name
                                     /\ metadata' = md
                             /\ UNCHANGED result
    /\ UNCHANGED <<data_dir, loaded, pair_penalties, config, sc, block_count,
                   features, mods_applied, last_outcome, fn_args, fn_ret>>

SelectPrefix == SelectSlot("prefix")

SelectMiddle == SelectSlot("middle")

SelectSuffix == SelectSlot("suffix")

\* if config.special_features: name = add_special_features(name, config)
AddSpecialFeatures ==
    /\ pc = "features"
    /\ IF config.special_features # 0
       THEN \E f \in add_special_features(name, config, blocks_used) :
               /\ name' = f.text
               /\ features' = f
               /\ calls' = Append(calls, [fn |-> "add_special_features", ret |-> f.text])
       ELSE UNCHANGED <<name, features, calls>>
    /\ pc' = "mods"
    /\ UNCHANGED <<data_dir, loaded, theme, prefixes, middles, suffixes,
                   pair_penalties, config, sc, blocks_used, block_count,
                   mods_applied, metadata, sel, result, forced_log, last_outcome,
                   fn_args, fn_ret>>

\* if config.character_modifications: name = apply_character_modifications(name, config)
ApplyCharacterModifications ==
    /\ pc = "mods"
    /\ IF config.character_modifications # 0
       THEN \E m \in apply_character_modifications(name, config) :
               /\ name' = m.text
               /\ mods_applied' = m.applied
               /\ calls' = Append(calls, [fn |-> "apply_character_modifications",
                                           ret |-> m.text])
       ELSE UNCHANGED <<name, mods_applied, calls>>
    /\ pc' = "cap"
    /\ UNCHANGED <<data_dir, loaded, theme, prefixes, middles, suffixes,
                   pair_penalties, config, sc, blocks_used, block_count,
                   features, metadata, sel, result, forced_log, last_outcome,
                   fn_args, fn_ret>>

\* name = fix_capitalization(name) and the return
FixCapitalization ==
    /\ pc = "cap"
    /\ name' = fix_capitalization(name)
    /\ calls' = Append(calls, [fn |-> "fix_capitalization", ret |-> name'])
    /\ result' = [returned |-> TRUE, name |-> name', blocks |-> blocks_used]
    /\ pc' = "idle"
    /\ UNCHANGED <<data_dir, loaded, theme, prefixes, middles, suffixes,
                   pair_penalties, config, sc, blocks_used, block_count,
                   features, mods_applied, metadata, sel, forced_log,
                   last_outcome, fn_args, fn_ret>>

-----------------------------------------------------------------------------
(* The configurations and the initial states of the generator *)

\* the narrow target of a caller who asks for good, elegant names
NarrowTarget ==
    [k \in ScaleSet |->
        CASE k = "good_evil" -> <<1, 2>>
          [] k = "elegant_rough" -> <<1, 3>>
          [] k = "weak_powerful" -> NoRange
          [] OTHER -> FullRange]

NameConfigs ==
    {DefaultFantasyNameConfig,
     [DefaultFantasyNameConfig EXCEPT
         !.block_counts_none = TRUE, !.vowel_first_prefix = NoPref,
         !.target = NarrowTarget,
         !.special_features = 100, !.max_special_features = 2,
         !.allow_apostrophes = TRUE, !.allow_hyphens = TRUE,
         !.character_modifications = 0],
     [DefaultFantasyNameConfig EXCEPT
         !.force_block_counts = <<3>>, !.vowel_first_prefix = 100,
         !.special_features = 20, !.allow_hyphens = TRUE,
         !.character_modifications = 100, !.max_modifications = 2,
         !.allow_diacritics = FALSE],
     [DefaultFantasyNameConfig EXCEPT
         !.force_block_counts = <<2, 2, 3>>, !.vowel_first_prefix = 30,
         !.target = NarrowTarget,
         !.special_features = 0, !.allow_spaces = TRUE]}

\* a configuration a caller builds with the setters: compatibility weighs
\* more, three penalties are raised and the bonus is switched off
HarshScoringConfig ==
    [DefaultScoringConfig EXCEPT
        !.weight_vibe = 30, !.weight_compatibility = 70,
        !.low_score_threshold = 60,
        !.penalty_repetition_vowel_across_boundary = 60,
        !.penalty_boundary_hard_stop_join = 90,
        !.penalty_boundary_consonants_3 = 100,
        !.bonus_smooth_transition = 0]

ScoringConfigs ==
    {[DefaultScoringConfig EXCEPT !.top_n_candidates = n,
                                  !.low_score_threshold = t] :
        n \in (1..MaxTopN) \cup {DefaultScoringConfig.top_n_candidates},
        t \in {DefaultScoringConfig.low_score_threshold, 100}}
    \cup {HarshScoringConfig}

\* the letter pair tables: no pair_penalties.csv, and one with two rows
\* (penalties in tenths)
PairTables == {{}, {<<<<"r", "d">>, 5>>, <<<<"l", "e">>, 2>>}}

Init ==
    /\ data_dir \in DiskNames
    /\ loaded = PatternBlocksLoaded(data_dir)
    /\ theme = "default"
    /\ prefixes = LoadBlocks(data_dir, "default").prefixes
    /\ middles = LoadBlocks(data_dir, "default").middles
    /\ suffixes = LoadBlocks(data_dir, "default").suffixes
    /\ pair_penalties \in PairTables
    /\ config \in NameConfigs
    /\ sc \in ScoringConfigs
    /\ blocks_used = <<>>
    /\ pc = "idle"
    /\ block_count = 0
    /\ name = <<>>
    /\ features = Untouched(<<>>)
    /\ mods_applied = <<>>
    /\ metadata = NoMetadata
    /\ sel = NoSel
    /\ calls = <<>>
    /\ result = NoResult
    /\ forced_log = NoForced
    /\ last_outcome = "none"
    /\ fn_args = <<>>
    /\ fn_ret = <<>>

Next ==
    \/ Call
    \/ \E t \in ThemeNames : SetTheme(t)
    \/ SelectPrefix
    \/ SelectMiddle
    \/ SelectSuffix
    \/ AddSpecialFeatures
    \/ ApplyCharacterModifications
    \/ FixCapitalization

Spec == Init /\ [][Next]_vars

-----------------------------------------------------------------------------
(* score_compatibility called on its own *)

\* the letters the enumerated fragments are written with
Alphabet == {"a", "e", "l", "k"}

\* every text of at most n letters of the alphabet
RECURSIVE TextsUpTo(_)
TextsUpTo(n) ==
    IF n = 0
    THEN {<<>>}
    ELSE LET shorter == TextsUpTo(n - 1)
         IN  shorter \cup {Append(t, c) : t \in shorter, c \in Alphabet}

\* fragments of the block files, longer than the enumerated ones
NamedFragments ==
    {<<"a", "r", "i", "n">>, <<"K", "o", "r">>, <<"A", "l">>,
     <<"t", "h", "a", "s">>, <<"e", "n">>}

CompatFragments == TextsUpTo(MaxFragLen) \cup NamedFragments

\* a configuration built with the setters: a small penalty for a direct
\* repetition, none for a repeated syllable or vowel, and a large bonus
\* (set_bonus_smooth_transition takes any value)
LenientScoringConfig ==
    [DefaultScoringConfig EXCEPT
        !.penalty_repetition_direct_block = 10,
        !.penalty_repetition_syllable = 0,
        !.penalty_repetition_vowel_across_boundary = 0,
        !.bonus_smooth_transition = 30]

\* a configuration without penalty for a direct repetition
NoDirectPenaltyConfig ==
    [DefaultScoringConfig EXCEPT !.penalty_repetition_direct_block = 0]

\* a configuration with a small penalty for three letters in a row
MildTripleLetterConfig ==
    [DefaultScoringConfig EXCEPT !.penalty_repetition_triple_letter = 30]

CompatConfigs ==
    {DefaultScoringConfig, HarshScoringConfig, LenientScoringConfig,
     NoDirectPenaltyConfig, MildTripleLetterConfig}

\* the blocks_used a caller passes beside the two blocks
CompatContexts(last_block, next_block) ==
    {<<>>, <<last_block>>, <<last_block, next_block>>,
     <<last_block, next_block, last_block>>}

InitCompat ==
    /\ data_dir = "bare"
    /\ loaded = PatternBlocksLoaded("bare")
    /\ theme = "default"
    /\ prefixes = <<>>
    /\ middles = <<>>
    /\ suffixes = <<>>
    /\ pair_penalties \in PairTables
    /\ config = DefaultFantasyNameConfig
    /\ sc \in CompatConfigs
    /\ blocks_used = <<>>
    /\ pc = "scoring"
    /\ block_count = 0
    /\ name = <<>>
    /\ features = Untouched(<<>>)
    /\ mods_applied = <<>>
    /\ metadata = NoMetadata
    /\ sel = NoSel
    /\ calls = <<>>
    /\ result = NoResult
    /\ forced_log = NoForced
    /\ last_outcome = "none"
    /\ \E last_block \in CompatFragments, next_block \in CompatFragments :
          \E used \in CompatContexts(last_block, next_block) :
             fn_args = [last_block |-> last_block, next_block |-> next_block,
                        blocks_used |-> used]
    /\ fn_ret = <<>>

\* score_compatibility(last_block, next_block, blocks_used, config)
ScoreCompatibility ==
    /\ pc = "scoring"
    /\ fn_ret' = <<score_compatibility(fn_args.last_block, fn_args.next_block,
                                       fn_args.blocks_used, sc, pair_penalties)>>
    /\ pc' = "scored"
    /\ UNCHANGED <<data_dir, loaded, theme, prefixes, middles, suffixes,
                   pair_penalties, config, sc, blocks_used, block_count, name,
                   features, mods_applied, metadata, sel, calls, result,
                   forced_log, last_outcome, fn_args>>

NextCompat == ScoreCompatibility

SpecCompat == InitCompat /\ [][NextCompat]_vars

-----------------------------------------------------------------------------
(* score_vibe_match called on its own *)

\* the values one scale can hold in a block's data
ScaleValues == 1..10

\* the data of the blocks scored: every value of the first scale, a low and a
\* high value of the others, and scales without data
VibeBlocks ==
    {[isdict |-> TRUE,
      vals |-> [k \in ScaleSet |->
                  CASE k = "good_evil" -> ge
                    [] k = "elegant_rough" -> er
                    [] k = "common_exotic" -> ce
                    [] k = "weak_powerful" -> wp
                    [] k = "fem_masc" -> fm],
      vowel_first |-> "none"] :
        ge \in ScaleValues \cup {NoValue},
        er \in {2, 9, NoValue}, ce \in {2, 9, NoValue},
        wp \in {2, 9, NoValue}, fm \in {2, 9, NoValue}}

\* the targets the range setters build (1 <= min <= max <= 10), and no
\* preference on the first scale
VibeTargets ==
    {[k \in ScaleSet |->
        CASE k = "good_evil" -> a
          [] k = "elegant_rough" -> b
          [] OTHER -> c] :
        a \in {FullRange, <<1, 1>>, <<4, 6>>, <<10, 10>>, NoRange},
        b \in {FullRange, <<3, 4>>},
        c \in {FullRange, <<8, 10>>}}

InitVibe ==
    /\ data_dir = "bare"
    /\ loaded = PatternBlocksLoaded("bare")
    /\ theme = "default"
    /\ prefixes = <<>>
    /\ middles = <<>>
    /\ suffixes = <<>>
    /\ pair_penalties = {}
    /\ config = DefaultFantasyNameConfig
    /\ sc = DefaultScoringConfig
    /\ blocks_used = <<>>
    /\ pc = "vibe"
    /\ block_count = 0
    /\ name = <<>>
    /\ features = Untouched(<<>>)
    /\ mods_applied = <<>>
    /\ metadata = NoMetadata
    /\ sel = NoSel
    /\ calls = <<>>
    /\ result = NoResult
    /\ forced_log = NoForced
    /\ last_outcome = "none"
    /\ \E b \in VibeBlocks, t \in VibeTargets :
          fn_args = [block_vibes |-> b, target_vibes |-> t]
    /\ fn_ret = <<>>

\* score_vibe_match(block_vibes, target_vibes)
ScoreVibeMatch ==
    /\ pc = "vibe"
    /\ fn_ret' = <<score_vibe_match(fn_args.block_vibes, fn_args.target_vibes)>>
    /\ pc' = "vibe again"
    /\ UNCHANGED <<data_dir, loaded, theme, prefixes, middles, suffixes,
                   pair_penalties, config, sc, blocks_used, block_count, name,
                   features, mods_applied, metadata, sel, calls, result,
                   forced_log, last_outcome, fn_args>>

\* a second call, on the same block with a value on a scale that had none
ScoreVibeMatchFilled ==
    /\ pc = "vibe again"
    /\ \E k \in ScaleSet, v \in ScaleValues :
          /\ fn_args.block_vibes.vals[k] = NoValue
          /\ LET filled == [fn_args.block_vibes EXCEPT !.vals[k] = v]
             IN  /\ fn_args' = [fn_args EXCEPT !.block_vibes = filled]
                 /\ fn_ret' = Append(fn_ret,
                                     score_vibe_match(filled, fn_args.target_vibes))
                 /\ calls' = <<[fn |-> "score_vibe_match", scale |-> k, value |-> v]>>
    /\ pc' = "vibe done"
    /\ UNCHANGED <<data_dir, loaded, theme, prefixes, middles, suffixes,
                   pair_penalties, config, sc, blocks_used, block_count, name,
                   features, mods_applied, metadata, sel, result,
                   forced_log, last_outcome>>

NextVibe == ScoreVibeMatch \/ ScoreVibeMatchFilled

SpecVibe == InitVibe /\ [][NextVibe]_vars

-----------------------------------------------------------------------------
(* The two post-processing passes on names of any fragments *)

\* the most special features and the most modifications a configuration asks for
MaxFeatures == 3

MaxMods == 2

\* fragments without special characters: vowels, consonants and the letters
\* of ligatures
PostFragments ==
    {<<"T", "h", "a">>, <<"e", "l">>, <<"a", "e">>, <<"s", "s">>,
     <<"d", "o", "r">>}

PostBlockLists ==
    {<<a, b>> : a \in PostFragments, b \in PostFragments}
    \cup {<<a, b, c>> : a \in PostFragments, b \in PostFragments,
                        c \in PostFragments}

\* set_allowed_features: one kind of feature, or all three
AllowedFeatures ==
    {[apostrophes |-> TRUE, hyphens |-> FALSE, spaces |-> FALSE],
     [apostrophes |-> FALSE, hyphens |-> TRUE, spaces |-> FALSE],
     [apostrophes |-> FALSE, hyphens |-> FALSE, spaces |-> TRUE],
     [apostrophes |-> TRUE, hyphens |-> TRUE, spaces |-> TRUE]}

\* set_allowed_modifications and set_max_modifications
AllowedModifications ==
    {[diacritics |-> FALSE, ligatures |-> TRUE, max |-> m] : m \in 1..MaxMods}
    \cup {[diacritics |-> TRUE, ligatures |-> TRUE, max |-> 1]}

\* both passes are entered and both can leave the name as it is
PostConfigs ==
    {[DefaultFantasyNameConfig EXCEPT
         !.special_features = 50, !.max_special_features = n,
         !.allow_apostrophes = f.apostrophes, !.allow_hyphens = f.hyphens,
         !.allow_spaces = f.spaces,
         !.character_modifications = 50, !.max_modifications = m.max,
         !.allow_diacritics = m.diacritics,
         !.allow_ligatures = m.ligatures] :
        n \in 1..MaxFeatures, f \in AllowedFeatures, m \in AllowedModifications}

\* the name of two blocks with its boundary at index 4
ThalindorBlocks == <<<<"T", "h", "a", "l">>, <<"i", "n", "d", "o", "r">>>>

\* one hyphen at most, and the probability roll always passes
HyphenOnlyConfig ==
    [DefaultFantasyNameConfig EXCEPT
        !.special_features = 100, !.max_special_features = 1,
        !.allow_apostrophes = FALSE, !.allow_hyphens = TRUE,
        !.allow_spaces = FALSE,
        !.character_modifications = 50, !.max_modifications = 1,
        !.allow_diacritics = FALSE, !.allow_ligatures = TRUE]

\* the configurations add_special_features leaves at once: no type is
\* allowed, no feature may be added, the probability is 0
NoFeatureConfigs ==
    {[HyphenOnlyConfig EXCEPT !.special_features = 50, !.allow_hyphens = FALSE],
     [HyphenOnlyConfig EXCEPT !.special_features = 50, !.max_special_features = 0,
                              !.allow_apostrophes = TRUE, !.allow_spaces = TRUE],
     [HyphenOnlyConfig EXCEPT !.special_features = 0,
                              !.allow_apostrophes = TRUE, !.allow_spaces = TRUE]}

\* diacritics and ligatures compete for the same characters
BothModificationsConfig ==
    [HyphenOnlyConfig EXCEPT
        !.special_features = 50,
        !.allow_diacritics = TRUE, !.max_modifications = MaxMods]

\* up to four features of any type, and the probability roll always passes
FourFeaturesConfig ==
    [HyphenOnlyConfig EXCEPT
        !.max_special_features = 4,
        !.allow_apostrophes = TRUE, !.allow_spaces = TRUE]

\* the three slots have been filled: blocks_used holds the fragments
InitPost ==
    /\ data_dir = "bare"
    /\ loaded = PatternBlocksLoaded("bare")
    /\ theme = "default"
    /\ prefixes = <<>>
    /\ middles = <<>>
    /\ suffixes = <<>>
    /\ pair_penalties = {}
    /\ config \in PostConfigs \cup NoFeatureConfigs
                  \cup {HyphenOnlyConfig, BothModificationsConfig,
                        FourFeaturesConfig}
    /\ sc = DefaultScoringConfig
    /\ blocks_used \in PostBlockLists \cup {ThalindorBlocks}
    /\ pc = "features"
    /\ block_count = Len(blocks_used)
    /\ name = Join(blocks_used)
    /\ features = Untouched(name)
    /\ mods_applied = <<>>
    /\ metadata = NoMetadata
    /\ sel = NoSel
    /\ calls = <<>>
    /\ result = NoResult
    /\ forced_log = NoForced
    /\ last_outcome = "none"
    /\ fn_args = <<>>
    /\ fn_ret = <<>>

NextPost ==
    \/ AddSpecialFeatures
    \/ ApplyCharacterModifications
    \/ FixCapitalization

SpecPost == InitPost /\ [][NextPost]_vars

-----------------------------------------------------------------------------
(* Properties of generate_fantasy_name and of the selector *)

\* the last selector call returned an error and no score
SelectorFailed == sel.role # "none" /\ ~sel.out.score.has

\* the last selector call returned a fragment with its score
SelectorSucceeded == sel.role # "none" /\ sel.out.score.has

SlotNames == {"prefix", "middle", "suffix"}

PostProcessingNames ==
    {"add_special_features", "apply_character_modifications",
     "fix_capitalization"}

\* the fragments the slot calls of this name returned, in call order
RECURSIVE SlotRets(_)
SlotRets(log) ==
    IF log = <<>>
    THEN <<>>
    ELSE LET rest == SlotRets(SubSeq(log, 1, Len(log) - 1))
             last == log[Len(log)]
         IN  IF last.fn \in SlotNames THEN Append(rest, last.ret) ELSE rest

\* C1: when the selector of a slot fails, the call has returned one error
\* value tagged with the slot and the reason, the failed slot is the last
\* thing that was called (no later slot, no post-processing pass), and the
\* value returned is not the partially built name.
C1_SlotFailureAborts ==
    SelectorFailed =>
        /\ pc = "idle"
        /\ result.returned
        /\ result.name = ErrorName(Capitalized(sel.role), sel.out.ret)
        /\ result.name # Join(blocks_used)
        /\ name = <<>>
        /\ calls[Len(calls)].fn = sel.role
        /\ \A k \in 1..Len(calls) : calls[k].fn \notin PostProcessingNames

\* a middle selector failed after a prefix had been chosen
C1_Witness_MiddleFails ==
    /\ SelectorFailed
    /\ sel.role = "middle"
    /\ blocks_used # <<>>
    /\ result.returned

\* C2: a fragment returned by a successful selection is one of the pool that
\* was scored: the prefixes whose vowel_first flag is the drawn one when there
\* are any, otherwise the whole dictionary of the role.
C2_ReturnedFromScoredPool ==
    SelectorSucceeded =>
        LET dict == RoleDict([prefixes |-> prefixes, middles |-> middles,
                              suffixes |-> suffixes], sel.role)
            whole == {dict[k].text : k \in 1..Len(dict)}
            filtered == {dict[k].text :
                            k \in {j \in 1..Len(dict) :
                                     dict[j].data.vowel_first = sel.out.draw}}
        IN  sel.out.ret \in
                (IF sel.out.draw # "all" /\ filtered # {} THEN filtered ELSE whole)

\* a prefix was selected from a pool the vowel filter had narrowed
C2_Witness_FilteredPool ==
    /\ SelectorSucceeded
    /\ sel.role = "prefix"
    /\ sel.out.draw = "1"
    /\ Len(sel.out.candidates) < Len(prefixes)

\* C3: a selection that is not forced returns one of the
\* min(top_n_candidates, pool size) best candidates by total score: fewer
\* candidates than the cut is wide score strictly more than the one returned.
C3_ReturnedWithinTopN ==
    (SelectorSucceeded /\ ~sel.out.forced) =>
        LET scored == sel.out.scored
            better == {k \in 1..Len(scored) :
                         scored[k].total_score > sel.out.score.total_score}
        IN  Cardinality(better) < Min(sc.top_n_candidates, Len(scored))

\* every candidate that was scored is below the low score threshold
AllBelowThreshold ==
    /\ SelectorSucceeded
    /\ \A k \in 1..Len(sel.out.scored) :
          sel.out.scored[k].total_score < 100 * Points(sc.low_score_threshold)

\* the fragment returned is the first of the best candidates, flagged forced
ReturnsTopRanked ==
    LET scored == sel.out.scored
        best == CHOOSE k \in 1..Len(scored) :
                   /\ \A j \in 1..Len(scored) :
                         scored[j].total_score <= scored[k].total_score
                   /\ \A j \in 1..(k - 1) :
                         scored[j].total_score < scored[k].total_score
    IN  /\ sel.out.ret = scored[best].text
        /\ sel.out.score.total_score = scored[best].total_score
        /\ sel.out.score.was_forced

\* the selection has the inputs of the logged forced selection
SameInputsAsLogged ==
    /\ forced_log.seen
    /\ sel.role = forced_log.role
    /\ sel.used = forced_log.used
    /\ sel.theme = forced_log.theme

\* C4 as stated: with every candidate below the threshold the selector
\* returns the top-ranked candidate, flagged forced, and two runs on the same
\* inputs return the same fragment.
C4_ForcedIsDeterministic ==
    AllBelowThreshold =>
        /\ ReturnsTopRanked
        /\ (SameInputsAsLogged => sel.out.ret = forced_log.ret)

\* C4, amended: with every candidate below the threshold the selector returns
\* the top-ranked candidate of the pool it scored, flagged forced, and two
\* runs on the same inputs whose vowel-first draw came out the same return the
\* same fragment.
C4_ForcedIsDeterministicGivenDraw ==
    AllBelowThreshold =>
        /\ ReturnsTopRanked
        /\ ((SameInputsAsLogged /\ sel.out.draw = forced_log.draw)
               => sel.out.ret = forced_log.ret)

\* a later call repeats a forced prefix selection of the first call, with the
\* same draw, in a pool of several candidates
C4_Witness_ForcedPrefixTwice ==
    /\ AllBelowThreshold
    /\ SameInputsAsLogged
    /\ sel.out.draw = forced_log.draw
    /\ sel.role = "prefix"
    /\ forced_log.first_call
    /\ last_outcome # "none"
    /\ Len(sel.out.scored) > 1
    /\ sel.out.scored[1].total_score > sel.out.scored[2].total_score

\* C5: the context is empty when slot selection begins, whatever the previous
\* call on the config did; after each successful slot it is the list of the
\* fragments chosen so far; once the name is assembled it has block_count
\* entries and the raw name is their concatenation.
C5_ContextTracksChosenFragments ==
    /\ (pc = "prefix" => blocks_used = <<>>)
    /\ (pc \in {"middle", "suffix", "features", "mods", "cap"}
          => blocks_used = SlotRets(calls))
    /\ (pc = "features"
          => Len(blocks_used) = block_count /\ name = Join(blocks_used))
    /\ ((result.returned /\ ~SelectorFailed /\ ~IsErrorName(result.name))
          => /\ Len(blocks_used) = block_count
             /\ result.blocks = SlotRets(calls))

\* a three-block name is assembled by a call that follows a failed call
C5_Witness_AfterError ==
    /\ pc = "features"
    /\ last_outcome = "error"
    /\ block_count = 3
    /\ Len(blocks_used) = 3

\* the calls a name generation makes, in order
ExpectedCalls ==
    <<"prefix">>
    \o (IF block_count = 3 THEN <<"middle">> ELSE <<>>)
    \o <<"suffix">>
    \o (IF config.special_features # 0 THEN <<"add_special_features">> ELSE <<>>)
    \o (IF config.character_modifications # 0
        THEN <<"apply_character_modifications">> ELSE <<>>)
    \o <<"fix_capitalization">>

\* C6: the calls of a name generation are an initial part of: prefix, middle
\* (only with three blocks), suffix, add_special_features,
\* apply_character_modifications, fix_capitalization, each made at most once;
\* every selector call gets the fragments chosen before it as its context;
\* a name is returned only after all of them.
C6_CallOrder ==
    /\ Len(calls) <= Len(ExpectedCalls)
    /\ \A k \in 1..Len(calls) : calls[k].fn = ExpectedCalls[k]
    /\ (sel.role # "none" /\ calls # <<>> /\ calls[Len(calls)].fn = sel.role
          => sel.used = SlotRets(SubSeq(calls, 1, Len(calls) - 1)))
    /\ ((result.returned /\ ~IsErrorName(result.name))
          => Len(calls) = Len(ExpectedCalls))

\* a three-block name has been returned after both post-processing passes
C6_Witness_ThreeBlocksAllPasses ==
    /\ result.returned
    /\ ~IsErrorName(result.name)
    /\ block_count = 3
    /\ Len(calls) = 6

\* C10: with an empty context every candidate is scored with a compatibility
\* of exactly 100, so its total is weight_vibe * vibe + weight_compatibility
\* * 100 and two candidates with the same vibe score have the same total.
C10_EmptyContextCompatibilityIs100 ==
    (sel.role # "none" /\ sel.used = <<>>) =>
        LET scored == sel.out.scored
        IN  \A k \in 1..Len(scored) :
               /\ scored[k].compatibility_score = Points(100)
               /\ scored[k].total_score =
                      sc.weight_vibe * scored[k].vibe_score
                      + sc.weight_compatibility * Points(100)
               /\ \A j \in 1..Len(scored) :
                     scored[j].vibe_score = scored[k].vibe_score
                        => scored[j].total_score = scored[k].total_score

\* prefixes of different texts were scored under the raised penalties and a
\* letter pair table
C10_Witness_HarshConfig ==
    /\ sel.role = "prefix"
    /\ sel.used = <<>>
    /\ sc = HarshScoringConfig
    /\ pair_penalties # {}
    /\ Len(sel.out.scored) > 1

-----------------------------------------------------------------------------
(* Properties of the post-processing passes *)

\* no two special characters stand next to each other
NoAdjacentSpecials(nm) ==
    \A i \in 1..(Len(nm) - 1) : ~(IsSpecial(nm[i]) /\ IsSpecial(nm[i + 1]))

\* no special character stands next to a ligature
NoSpecialBesideLigature(nm) ==
    \A i \in 1..Len(nm) :
        nm[i] \in LigatureGlyphs =>
            /\ (i > 1 => ~IsSpecial(nm[i - 1]))
            /\ (i < Len(nm) => ~IsSpecial(nm[i + 1]))

\* C7: the text add_special_features and then apply_character_modifications
\* leave has no two special characters next to each other and no special
\* character next to a ligature; the first holds after the first pass too.
C7_NoAdjacentSpecials ==
    /\ (pc = "mods" => NoAdjacentSpecials(name))
    /\ (pc = "cap" => NoAdjacentSpecials(name) /\ NoSpecialBesideLigature(name))

\* two special characters were inserted and a ligature replaced two letters
C7_Witness_TwoFeaturesAndLigature ==
    /\ pc = "cap"
    /\ features.added_count = 2
    /\ \E i \in 1..Len(name) : name[i] \in LigatureGlyphs

-----------------------------------------------------------------------------
(* Properties of score_compatibility *)

\* C8: the score of a fragment joined to itself is at most 100 minus the
\* penalty for a direct repetition, when that penalty is not zero.
C8_SelfJoinCappedByDirectPenalty ==
    (/\ pc = "scored"
     /\ fn_args.last_block = fn_args.next_block
     /\ fn_args.last_block # <<>>
     /\ sc.penalty_repetition_direct_block # 0)
        => fn_ret[1] <= Points(100 - sc.penalty_repetition_direct_block)

\* C9: the score lies between 0 and 100.
C9_ScoreWithin0And100 ==
    pc = "scored" => (0 <= fn_ret[1] /\ fn_ret[1] <= Points(100))

\* C11: with the default configuration (direct block penalty 75) the score of
\* "Kor" joined to "Kor" is 25.
C11_KorKorScores25 ==
    (/\ pc = "scored"
     /\ fn_args.last_block = <<"K", "o", "r">>
     /\ fn_args.next_block = <<"K", "o", "r">>
     /\ sc = DefaultScoringConfig)
        => fn_ret[1] = Points(25)

\* the context is A, B, A and the candidate is B, another fragment than A
SequenceRepeats ==
    /\ pc = "scored"
    /\ fn_args.last_block # <<>> /\ fn_args.next_block # <<>>
    /\ Lower(fn_args.last_block) # Lower(fn_args.next_block)
    /\ fn_args.blocks_used
          = <<fn_args.last_block, fn_args.next_block, fn_args.last_block>>

\* C21: when the candidate is no exact repeat of the previous fragment but
\* (previous, candidate) repeats the two-fragment sequence before it in the
\* context, the score is the score of the join less the sequence penalty.
C21_SequencePenaltySubtracted ==
    SequenceRepeats =>
        fn_ret[1] = Max(0, RawCompatibility(fn_args.last_block, fn_args.next_block,
                                            <<>>, sc, pair_penalties)
                           - Points(sc.penalty_repetition_sequence))

-----------------------------------------------------------------------------
(* Properties of score_vibe_match *)

\* the block has a number on every scale and the target a range for every scale
CompleteVibeCall ==
    /\ \A k \in ScaleSet : fn_args.block_vibes.vals[k] \in ScaleValues
    /\ \A k \in ScaleSet : fn_args.target_vibes[k] # NoRange

\* every value of the block lies inside the range of its scale
AllInsideTarget ==
    \A k \in ScaleSet :
        /\ fn_args.target_vibes[k][1] <= fn_args.block_vibes.vals[k]
        /\ fn_args.block_vibes.vals[k] <= fn_args.target_vibes[k][2]

\* C12: for a block with a value on all five scales and a target of ranges,
\* the vibe score is within 0..100, it is 100 when every value is inside its
\* range and below 100 when some value is outside.
C12_VibeScore100IffInside ==
    (pc = "vibe again" /\ CompleteVibeCall) =>
        /\ 0 <= fn_ret[1] /\ fn_ret[1] <= Points(100)
        /\ (AllInsideTarget => fn_ret[1] = Points(100))
        /\ (~AllInsideTarget => fn_ret[1] < Points(100))

\* a complete block with a value outside a narrow range has been scored
C12_Witness_OneOutside ==
    /\ pc = "vibe again"
    /\ CompleteVibeCall
    /\ ~AllInsideTarget
    /\ fn_args.target_vibes["good_evil"] = <<4, 6>>
    /\ fn_args.block_vibes.vals["good_evil"] = 5
    /\ fn_ret[1] > 0

\* the second call filled scale k with a value outside the range of the scale
FilledOffTarget ==
    /\ pc = "vibe done"
    /\ fn_args.target_vibes[calls[1].scale] # NoRange
    /\ ~(/\ fn_args.target_vibes[calls[1].scale][1] <= calls[1].value
         /\ calls[1].value <= fn_args.target_vibes[calls[1].scale][2])

\* how far the filled value lies outside the range
FilledDistance ==
    Min(Abs(calls[1].value - fn_args.target_vibes[calls[1].scale][1]),
        Abs(calls[1].value - fn_args.target_vibes[calls[1].scale][2]))

\* C13 as stated: a block without data on a scale scores strictly less than
\* the same block with any value on that scale outside the target range.
C13_MissingWorseThanOffTarget ==
    FilledOffTarget => fn_ret[1] < fn_ret[2]

\* the block scored first had data on a scale other than the one filled
DataOnAnotherScale ==
    \E j \in ScaleSet \ {calls[1].scale} : fn_args.block_vibes.vals[j] # NoValue

\* C13, amended: a block without data on a scale, and with data on another,
\* scores strictly less than the same block with a value on that scale that
\* lies outside the target range by at most 5.
C13_MissingWorseThanNearOffTarget ==
    (FilledOffTarget /\ FilledDistance <= 5 /\ DataOnAnotherScale)
        => fn_ret[1] < fn_ret[2]

\* the filled value lies exactly 5 outside its range
C13_Witness_FiveOutside ==
    /\ FilledOffTarget
    /\ FilledDistance = 5
    /\ DataOnAnotherScale
    /\ fn_ret[1] < fn_ret[2]

-----------------------------------------------------------------------------
(* Properties of the two post-processing passes *)

\* the name add_special_features was given
JoinedBlocks == Join(blocks_used)

NotSpecial(char) == ~IsSpecial(char)

\* the feature type of a character is enabled
FeatureAllowed(char) ==
    CASE char = "'" -> config.allow_apostrophes
      [] char = "-" -> config.allow_hyphens
      [] char = " " -> config.allow_spaces
      [] OTHER -> TRUE

\* add_special_features returns the name at once
FeaturesSwitchedOff ==
    \/ ~(config.allow_apostrophes \/ config.allow_hyphens \/ config.allow_spaces)
    \/ config.max_special_features = 0
    \/ config.special_features = 0

\* C14: add_special_features only inserts characters, at most
\* max_special_features of them, each of an enabled type and none before the
\* first or after the last character; with no type enabled, a maximum of 0
\* or a probability of 0 the name comes back unchanged.
C14_FeaturesWithinLimits ==
    pc = "mods" =>
        /\ SelectSeq(name, NotSpecial) = JoinedBlocks
        /\ Len(name) - Len(JoinedBlocks) <= config.max_special_features
        /\ \A i \in 1..Len(name) : FeatureAllowed(name[i])
        /\ NotSpecial(name[1]) /\ NotSpecial(name[Len(name)])
        /\ (FeaturesSwitchedOff => name = JoinedBlocks)

\* every type is enabled and the pass has inserted as many features as allowed
C14_Witness_MaxFeaturesInserted ==
    /\ pc = "mods"
    /\ config.allow_apostrophes /\ config.allow_hyphens /\ config.allow_spaces
    /\ config.max_special_features = 2
    /\ Len(name) - Len(JoinedBlocks) = 2

\* "Thalindor" of "Thal" + "indor", hyphens only, one feature, roll passing
ThalindorScenario ==
    /\ pc = "mods"
    /\ blocks_used = ThalindorBlocks
    /\ config = HyphenOnlyConfig

\* C15: in the Thalindor scenario exactly one hyphen is inserted, at the
\* block boundary (index 4) or next to it, never at index 0 or the last index.
C15_ThalindorHyphenAtBoundary ==
    ThalindorScenario =>
        /\ features.added_count = 1
        /\ \E p \in {3, 4, 5} : name = InsertAt(JoinedBlocks, p, "-")
        /\ name[1] # "-" /\ name[Len(name)] # "-"

C15_Witness_ThalHyphenIndor ==
    /\ ThalindorScenario
    /\ name = <<"T", "h", "a", "l", "-", "i", "n", "d", "o", "r">>

\* the positions of the input one applied substitution covers
CoveredBy(op) == op.pos..(op.pos + op.length - 1)

\* C16: apply_character_modifications applies at most max_modifications
\* substitutions, in descending score order, and no position of its input is
\* covered by two of them.
C16_ModificationsBoundedOrderedDisjoint ==
    pc = "cap" =>
        /\ Len(mods_applied) <= config.max_modifications
        /\ \A k \in 1..(Len(mods_applied) - 1) :
              mods_applied[k].total_score >= mods_applied[k + 1].total_score
        /\ \A j, k \in 1..Len(mods_applied) :
              j # k => CoveredBy(mods_applied[j]) \cap CoveredBy(mods_applied[k]) = {}

\* a ligature was applied and a diacritic that had to avoid its characters
C16_Witness_LigatureThenDiacritic ==
    /\ pc = "cap"
    /\ config.allow_diacritics /\ config.allow_ligatures
    /\ Len(mods_applied) = 2
    /\ mods_applied[1].mod_type = "ligature"
    /\ mods_applied[2].mod_type = "diacritic"
    /\ LET opportunities == ModificationOpportunities(features.text, config)
       IN  \E k \in 1..Len(opportunities) :
              /\ opportunities[k].mod_type = "diacritic"
              /\ CoveredBy(opportunities[k]) \subseteq CoveredBy(mods_applied[1])

-----------------------------------------------------------------------------
(* fix_capitalization called on its own, twice *)

MaxCapLen == 4

\* a lower-case and an upper-case letter, the letter whose upper case is two
\* characters, and the three feature characters
CapAlphabet == {"a", "K", "lig-ss", "'", "-", " "}

RECURSIVE CapTexts(_)
CapTexts(n) ==
    IF n = 0
    THEN {<<>>}
    ELSE CapTexts(n - 1)
         \cup {Append(t, c) : t \in {u \in CapTexts(n - 1) : Len(u) = n - 1},
                              c \in CapAlphabet}

InitCap ==
    /\ data_dir = "bare"
    /\ loaded = PatternBlocksLoaded("bare")
    /\ theme = "default"
    /\ prefixes = <<>>
    /\ middles = <<>>
    /\ suffixes = <<>>
    /\ pair_penalties = {}
    /\ config = DefaultFantasyNameConfig
    /\ sc = DefaultScoringConfig
    /\ blocks_used = <<>>
    /\ pc = "cap once"
    /\ block_count = 0
    /\ name \in CapTexts(MaxCapLen)
    /\ features = Untouched(<<>>)
    /\ mods_applied = <<>>
    /\ metadata = NoMetadata
    /\ sel = NoSel
    /\ calls = <<>>
    /\ result = NoResult
    /\ forced_log = NoForced
    /\ last_outcome = "none"
    /\ fn_args = [name |-> name]
    /\ fn_ret = <<>>

\* name = fix_capitalization(name), from the position pc names
FixCapitalizationAt(at, then) ==
    /\ pc = at
    /\ name' = fix_capitalization(name)
    /\ fn_ret' = Append(fn_ret, name')
    /\ pc' = then
    /\ UNCHANGED <<data_dir, loaded, theme, prefixes, middles, suffixes,
                   pair_penalties, config, sc, blocks_used, block_count,
                   features, mods_applied, metadata, sel, calls, result,
                   forced_log, last_outcome, fn_args>>

FixCapitalizationOnce == FixCapitalizationAt("cap once", "cap twice")

FixCapitalizationTwice == FixCapitalizationAt("cap twice", "cap done")

NextCap == FixCapitalizationOnce \/ FixCapitalizationTwice

SpecCap == InitCap /\ [][NextCap]_vars

\* C17: for every string over letters, apostrophes, hyphens and spaces,
\* fix_capitalization applied twice gives what it gives applied once.
C17_FixCapitalizationIdempotent ==
    pc = "cap done" => fn_ret[2] = fn_ret[1]

\* the first call changed the name: a segment after a hyphen was capitalised
\* and the upper case of a letter took two characters
C17_Witness_ChangedByFirstCall ==
    /\ pc = "cap done"
    /\ Len(fn_ret[1]) > Len(fn_args.name)
    /\ \E i \in 2..Len(fn_args.name) :
          fn_args.name[i - 1] = "-" /\ fn_args.name[i] = "a"
    /\ fn_ret[2] = fn_ret[1]

-----------------------------------------------------------------------------
(* _get_scored_block_internal called on dictionaries of any content *)

MaxDictLen == 3

\* a value that is no dict (a string, a list)
NotADict ==
    [isdict |-> FALSE, vals |-> [k \in ScaleSet |-> NoValue], vowel_first |-> "none"]

\* entries a dictionary can hold: two with sound data, one whose value is no
\* dict, two whose good_evil is no number
SelectEntries ==
    {Entry(<<"K", "o", "r">>, Vibes(7, 7, 3, 8, 8, "0")),
     Entry(<<"a", "l">>, Vibes(2, 2, 4, 4, 3, "1")),
     Entry(<<"Z", "e", "d">>, NotADict),
     Entry(<<"O", "r">>, Vibes(BadValue, 5, 5, 5, 5, "1")),
     Entry(<<"T", "u">>, Vibes(BadValue, 3, 3, 3, 3, "0"))}

\* a dict keeps its keys in insertion order and holds each key once
RECURSIVE SelectDicts(_)
SelectDicts(n) ==
    IF n = 0
    THEN {<<>>}
    ELSE SelectDicts(n - 1)
         \cup {Append(d, e) :
                 d \in {x \in SelectDicts(n - 1) : Len(x) = n - 1},
                 e \in SelectEntries}

InitSelect ==
    /\ data_dir = "bare"
    /\ loaded = PatternBlocksLoaded("bare")
    /\ theme = "default"
    /\ prefixes = <<>>
    /\ middles = <<>>
    /\ suffixes = <<>>
    /\ pair_penalties = {}
    /\ config = DefaultFantasyNameConfig
    /\ sc = DefaultScoringConfig
    /\ blocks_used \in {<<>>, <<<<"E", "l">>>>}
    /\ pc = "selecting"
    /\ block_count = 0
    /\ name = <<>>
    /\ features = Untouched(<<>>)
    /\ mods_applied = <<>>
    /\ metadata = NoMetadata
    /\ sel = NoSel
    /\ calls = <<>>
    /\ result = NoResult
    /\ forced_log = NoForced
    /\ last_outcome = "none"
    /\ \E block_type \in {"prefix", "middle", "suffix"},
          d \in SelectDicts(MaxDictLen),
          vowel_first_pref \in {NoPref, 0, 20, 100} :
          /\ \A i, j \in 1..Len(d) : i # j => d[i].text # d[j].text
          /\ fn_args = [block_type |-> block_type, block_type_dict |-> d,
                        vowel_first_pref |-> vowel_first_pref]
    /\ fn_ret = <<>>

\* one call of _get_scored_block_internal(..., return_score=True)
SelectFromDict ==
    /\ pc = "selecting"
    /\ \E o \in GetScoredBlockInternal(fn_args.block_type, fn_args.block_type_dict,
                                       blocks_used, config.target,
                                       fn_args.vowel_first_pref, sc, pair_penalties) :
          /\ sel' = o
          /\ fn_ret' = <<o.ret>>
    /\ pc' = "selected"
    /\ UNCHANGED <<data_dir, loaded, theme, prefixes, middles, suffixes,
                   pair_penalties, config, sc, blocks_used, block_count, name,
                   features, mods_applied, metadata, calls, result,
                   forced_log, last_outcome, fn_args>>

NextSelect == SelectFromDict

SpecSelect == InitSelect /\ [][NextSelect]_vars

-----------------------------------------------------------------------------
(* Properties of one selection *)

\* the attribute data cannot be scored: it is no dict, or a value is no number
Malformed(data) ==
    \/ ~data.isdict
    \/ \E k \in ScaleSet : data.vals[k] = BadValue

\* the candidates of the call: the dictionary after the prefix filter
CallCandidates ==
    IF sel.draw = "all"
    THEN fn_args.block_type_dict
    ELSE LET Matches(e) == e.data.isdict /\ e.data.vowel_first = sel.draw
         IN  IF SelectSeq(fn_args.block_type_dict, Matches) = <<>>
             THEN fn_args.block_type_dict
             ELSE SelectSeq(fn_args.block_type_dict, Matches)

SomeCandidateSound ==
    \E i \in 1..Len(CallCandidates) : ~Malformed(CallCandidates[i].data)

\* C18: a candidate with malformed data is never returned; the selection
\* succeeds when some candidate scores; when none does the result is the
\* ScoringFailed error of the role, another value than the DictEmpty error of
\* an empty dictionary.
C18_MalformedSkipped ==
    pc = "selected" =>
        /\ \A i \in 1..Len(fn_args.block_type_dict) :
              Malformed(fn_args.block_type_dict[i].data)
                  => fn_ret[1] # fn_args.block_type_dict[i].text
        /\ (SomeCandidateSound =>
               \E i \in 1..Len(CallCandidates) :
                  /\ ~Malformed(CallCandidates[i].data)
                  /\ fn_ret[1] = CallCandidates[i].text)
        /\ ((fn_args.block_type_dict # <<>> /\ ~SomeCandidateSound) =>
               fn_ret[1] = ErrText(fn_args.block_type, "ScoringFailed"))
        /\ (fn_args.block_type_dict = <<>> =>
               fn_ret[1] = ErrText(fn_args.block_type, "DictEmpty"))
        /\ ErrText(fn_args.block_type, "ScoringFailed")
               # ErrText(fn_args.block_type, "DictEmpty")

\* a sound candidate was returned although both kinds of malformed data were
\* among the candidates
C18_Witness_SoundAmongMalformed ==
    /\ pc = "selected"
    /\ ~StartsWithErr(fn_ret[1])
    /\ \E i \in 1..Len(CallCandidates) : ~CallCandidates[i].data.isdict
    /\ \E i \in 1..Len(CallCandidates) :
          /\ CallCandidates[i].data.isdict
          /\ Malformed(CallCandidates[i].data)

-----------------------------------------------------------------------------
(* generate_fantasy_names: a batch of calls on one configuration *)

MaxCount == 2

\* force_block_counts as set_force_block_count leaves it, and the empty list
\* a caller can assign to the attribute; post-processing switched off
BatchConfigs ==
    {[DefaultFantasyNameConfig EXCEPT
         !.force_block_counts = counts,
         !.special_features = 0, !.character_modifications = 0] :
        counts \in {<<2>>, <<3>>, <<>>}}

BatchScoringConfig == [DefaultScoringConfig EXCEPT !.top_n_candidates = 2]

InitBatch ==
    /\ data_dir \in DiskNames
    /\ loaded = PatternBlocksLoaded(data_dir)
    /\ theme = "default"
    /\ prefixes = LoadBlocks(data_dir, "default").prefixes
    /\ middles = LoadBlocks(data_dir, "default").middles
    /\ suffixes = LoadBlocks(data_dir, "default").suffixes
    /\ pair_penalties = {}
    /\ config \in BatchConfigs
    /\ sc = BatchScoringConfig
    /\ blocks_used = <<>>
    /\ pc = "idle"
    /\ block_count = 0
    /\ name = <<>>
    /\ features = Untouched(<<>>)
    /\ mods_applied = <<>>
    /\ metadata = NoMetadata
    /\ sel = NoSel
    /\ calls = <<>>
    /\ result = NoResult
    /\ forced_log = NoForced
    /\ last_outcome = "none"
    /\ \E count \in 0..MaxCount : fn_args = [count |-> count, done |-> 0]
    /\ fn_ret = <<>>

\* the call whose random.choice(config.force_block_counts) raises IndexError:
\* the except clause returns the tagged name
CallRaises ==
    /\ pc = "idle"
    /\ BlockCountDraws(config) = {}
    /\ blocks_used' = reset_context(blocks_used)
    /\ block_count' = 0
    /\ metadata' = NoMetadata
    /\ name' = <<>>
    /\ features' = Untouched(<<>>)
    /\ mods_applied' = <<>>
    /\ sel' = NoSel
    /\ calls' = <<>>
    /\ result' = [returned |-> TRUE,
                  name |-> ErrorName("Exception", <<"IndexError">>),
                  blocks |-> blocks_used']
    /\ last_outcome' = IF ~result.returned THEN last_outcome
                       ELSE IF IsErrorName(result.name) THEN "error"
                       ELSE "name"
    /\ UNCHANGED <<data_dir, loaded, theme, prefixes, middles, suffixes,
                   pair_penalties, config, sc, pc, forced_log, fn_args, fn_ret>>

\* the comprehension has another element to compute
MoreToGenerate ==
    /\ pc = "idle"
    /\ ~result.returned
    /\ fn_args.done < fn_args.count

BatchCall == MoreToGenerate /\ Call

BatchCallRaises == MoreToGenerate /\ CallRaises

\* a variant of the list that keeps names only
Collected_NamesOnly(results, res) ==
    IF IsErrorName(res.name) THEN results ELSE Append(results, res.name)

\* the list with the value of one more call
Collected(results, res) == Append(results, res.name)

\* the value a call returned becomes the next element of the list
Collect ==
    /\ pc = "idle"
    /\ result.returned
    /\ fn_ret' = Collected(fn_ret, result)
    /\ fn_args' = [fn_args EXCEPT !.done = @ + 1]
    /\ result' = NoResult
    /\ last_outcome' = IF IsErrorName(result.name) THEN "error" ELSE "name"
    /\ UNCHANGED <<data_dir, loaded, theme, prefixes, middles, suffixes,
                   pair_penalties, config, sc, blocks_used, pc, block_count,
                   name, features, mods_applied, metadata, sel, calls,
                   forced_log>>

\* range(count) is exhausted: the list is returned
ReturnBatch ==
    /\ pc = "idle"
    /\ ~result.returned
    /\ fn_args.done = fn_args.count
    /\ pc' = "returned"
    /\ UNCHANGED <<data_dir, loaded, theme, prefixes, middles, suffixes,
                   pair_penalties, config, sc, blocks_used, block_count, name,
                   features, mods_applied, metadata, sel, calls, result,
                   forced_log, last_outcome, fn_args, fn_ret>>

NextBatch ==
    \/ BatchCall
    \/ BatchCallRaises
    \/ SelectPrefix
    \/ SelectMiddle
    \/ SelectSuffix
    \/ AddSpecialFeatures
    \/ ApplyCharacterModifications
    \/ FixCapitalization
    \/ Collect
    \/ ReturnBatch

SpecBatch == InitBatch /\ [][NextBatch]_vars

\* C19: generate_fantasy_names(count, config) returns exactly count results:
\* each is a name or one 'ErrorGeneratingName(...)' entry for a call that
\* failed, and the calls after a failed one are still made.
C19_BatchReturnsCountResults ==
    /\ pc = "returned" =>
          /\ Len(fn_ret) = fn_args.count
          /\ \A i \in 1..Len(fn_ret) : fn_ret[i] # <<>>
    /\ (pc = "idle" /\ result.returned) => result.name # <<>>
    /\ Len(fn_ret) = fn_args.done

\* a batch of two whose first call failed on a slot and whose second call
\* still produced a name
C19_Witness_NameAfterError ==
    /\ pc = "returned"
    /\ fn_args.count = 2
    /\ IsErrorName(fn_ret[1])
    /\ fn_ret[1] # ErrorName("Exception", <<"IndexError">>)
    /\ ~IsErrorName(fn_ret[2])

-----------------------------------------------------------------------------
(* ScoringConfig: the setters called in any order *)

MaxSetterCalls == 3

\* an optional argument: left at None, or given with a value
NoArg == [given |-> FALSE, value |-> 0]

Arg(v) == [given |-> TRUE, value |-> v]

\* if vibe + compatibility == 1.0 and vibe >= 0 and compatibility >= 0:
\* (hundredths; the float sum of two hundredths that add up to 1 is 1.0)
WeightsAccepted(vibe, compatibility) ==
    vibe + compatibility = 100 /\ vibe >= 0 /\ compatibility >= 0

set_weights(cfg, vibe, compatibility) ==
    IF WeightsAccepted(vibe, compatibility)
    THEN [cfg EXCEPT !.weight_vibe = vibe, !.weight_compatibility = compatibility]
    ELSE [cfg EXCEPT !.weight_vibe = 40, !.weight_compatibility = 60]

\* a variant without the check
set_top_n_candidates_Unchecked(cfg, n) == [cfg EXCEPT !.top_n_candidates = n]

set_top_n_candidates(cfg, n) ==
    IF n >= 1 THEN [cfg EXCEPT !.top_n_candidates = n] ELSE cfg

set_low_score_threshold(cfg, threshold) ==
    IF 0 <= threshold /\ threshold <= 100
    THEN [cfg EXCEPT !.low_score_threshold = threshold]
    ELSE cfg

\* the keyword setters: an argument is stored when it is not None and >= 0;
\* args maps the fields the setter covers to its arguments
SetWhereValid(cfg, args) ==
    [k \in DOMAIN cfg |->
        IF k \in DOMAIN args /\ args[k].given /\ args[k].value >= 0
        THEN args[k].value
        ELSE cfg[k]]

RepetitionFields ==
    {"penalty_repetition_direct_block", "penalty_repetition_sequence",
     "penalty_repetition_syllable", "penalty_repetition_vowel_across_boundary",
     "penalty_repetition_triple_letter"}

MultiplierFields == {"penalty_repetition_syllable_common_multiplier"}

BoundaryFields ==
    {"penalty_boundary_consonants_3", "penalty_boundary_consonants_4plus",
     "penalty_boundary_vowels_3plus"}

JoinFields ==
    {"penalty_boundary_hard_stop_join", "penalty_boundary_awkward_vowel_join",
     "penalty_boundary_cluster_hard_stop"}

set_repetition_penalties(cfg, args) == SetWhereValid(cfg, args)

set_repetition_multipliers(cfg, args) == SetWhereValid(cfg, args)

set_boundary_penalties(cfg, args) == SetWhereValid(cfg, args)

set_join_penalties(cfg, args) == SetWhereValid(cfg, args)

\* stored as given
set_bonus_smooth_transition(cfg, bonus) ==
    [cfg EXCEPT !.bonus_smooth_transition = bonus]

set_letter_pair_penalty_factor(cfg, factor) ==
    IF factor >= 0 THEN [cfg EXCEPT !.penalty_letter_pairs_factor = factor] ELSE cfg

\* the arguments of the calls: valid and invalid ones
WeightArgs == {<<30, 70>>, <<100, 0>>, <<60, 60>>, <<150, -50>>, <<-10, 110>>}

TopNArgs == {-1, 0, 1}

ThresholdArgs == {-1, 0, 100, 101}

PenaltyArgs == {-5, 0, 30}

\* keyword arguments: none given, or one of them
KeywordArgs(fields) ==
    {[k \in fields |-> NoArg]}
    \cup {[k \in fields |-> IF k = f THEN Arg(v) ELSE NoArg] :
            f \in fields, v \in PenaltyArgs}

InitConfig ==
    /\ data_dir = "bare"
    /\ loaded = PatternBlocksLoaded("bare")
    /\ theme = "default"
    /\ prefixes = <<>>
    /\ middles = <<>>
    /\ suffixes = <<>>
    /\ pair_penalties = {}
    /\ config = DefaultFantasyNameConfig
    /\ sc = DefaultScoringConfig
    /\ blocks_used = <<>>
    /\ pc = "configuring"
    /\ block_count = 0
    /\ name = <<>>
    /\ features = Untouched(<<>>)
    /\ mods_applied = <<>>
    /\ metadata = NoMetadata
    /\ sel = NoSel
    /\ calls = <<>>
    /\ result = NoResult
    /\ forced_log = NoForced
    /\ last_outcome = "none"
    /\ fn_args = [setter_calls |-> 0]
    /\ fn_ret = <<>>

\* one setter call: the configuration it leaves, and whether it changed it
SetterCall(setter, new_sc) ==
    /\ pc = "configuring"
    /\ fn_args.setter_calls < MaxSetterCalls
    /\ sc' = new_sc
    /\ fn_args' = [fn_args EXCEPT !.setter_calls = @ + 1]
    /\ calls' = <<[fn |-> setter, changed |-> new_sc # sc]>>
    /\ UNCHANGED <<data_dir, loaded, theme, prefixes, middles, suffixes,
                   pair_penalties, config, blocks_used, pc, block_count, name,
                   features, mods_applied, metadata, sel, result, forced_log,
                   last_outcome, fn_ret>>

SetWeights ==
    \E w \in WeightArgs : SetterCall("set_weights", set_weights(sc, w[1], w[2]))

SetTopNCandidates ==
    \E n \in TopNArgs :
        SetterCall("set_top_n_candidates", set_top_n_candidates(sc, n))

SetLowScoreThreshold ==
    \E t \in ThresholdArgs :
        SetterCall("set_low_score_threshold", set_low_score_threshold(sc, t))

SetRepetitionPenalties ==
    \E args \in KeywordArgs(RepetitionFields) :
        SetterCall("set_repetition_penalties", set_repetition_penalties(sc, args))

SetRepetitionMultipliers ==
    \E args \in KeywordArgs(MultiplierFields) :
        SetterCall("set_repetition_multipliers", set_repetition_multipliers(sc, args))

SetBoundaryPenalties ==
    \E args \in KeywordArgs(BoundaryFields) :
        SetterCall("set_boundary_penalties", set_boundary_penalties(sc, args))

SetJoinPenalties ==
    \E args \in KeywordArgs(JoinFields) :
        SetterCall("set_join_penalties", set_join_penalties(sc, args))

SetBonusSmoothTransition ==
    \E bonus \in PenaltyArgs :
        SetterCall("set_bonus_smooth_transition",
                   set_bonus_smooth_transition(sc, bonus))

SetLetterPairPenaltyFactor ==
    \E factor \in PenaltyArgs :
        SetterCall("set_letter_pair_penalty_factor",
                   set_letter_pair_penalty_factor(sc, factor))

NextConfig ==
    \/ SetWeights
    \/ SetTopNCandidates
    \/ SetLowScoreThreshold
    \/ SetRepetitionPenalties
    \/ SetRepetitionMultipliers
    \/ SetBoundaryPenalties
    \/ SetJoinPenalties
    \/ SetBonusSmoothTransition
    \/ SetLetterPairPenaltyFactor

SpecConfig == InitConfig /\ [][NextConfig]_vars

\* the fields that hold a penalty
PenaltyFields ==
    RepetitionFields \cup MultiplierFields \cup BoundaryFields \cup JoinFields
    \cup {"penalty_letter_pairs_factor"}

\* C20: after any sequence of setter calls, with valid or invalid arguments,
\* the two weights are non-negative and add up to 1.0, top_n_candidates is at
\* least 1, low_score_threshold lies in 0..100 and no penalty is negative.
C20_ConfigInvariant ==
    /\ sc.weight_vibe + sc.weight_compatibility = 100
    /\ sc.weight_vibe >= 0 /\ sc.weight_compatibility >= 0
    /\ sc.top_n_candidates >= 1
    /\ 0 <= sc.low_score_threshold /\ sc.low_score_threshold <= 100
    /\ \A k \in PenaltyFields : sc[k] >= 0

\* invalid weights were replaced by 0.4 and 0.6 after a valid call had
\* changed another field, and the last call was refused
C20_Witness_AfterInvalidCalls ==
    /\ pc = "configuring"
    /\ sc.weight_vibe = 40 /\ sc.weight_compatibility = 60
    /\ sc.top_n_candidates = 1
    /\ calls # <<>> /\ ~calls[1].changed
    /\ calls[1].fn = "set_low_score_threshold"

\* ---------------------------------------------------------------------
\* The blacklist of letter clusters and score_compatibility
\* ---------------------------------------------------------------------

\* BLACKLISTED_COMBOS_BY_LEVEL: the entries of each level that lie in the
\* boundary of two fragments of CompatFragments
BLACKLISTED_COMBOS_BY_LEVEL ==
    [level \in 1..5 |->
        CASE level = 5 -> {<<"s", "k", "l">>}
          [] level = 4 -> {<<"l", "k">>, <<"n", "k">>, <<"r", "k">>, <<"s", "k">>}
          [] level = 3 -> {<<"a", "a", "e">>, <<"a", "e", "a">>, <<"e", "a", "e">>,
                           <<"e", "e", "a">>, <<"k", "t">>, <<"l", "k">>,
                           <<"n", "l">>, <<"n", "t">>, <<"r", "k">>, <<"t", "h">>}
          [] level = 2 -> {}
          [] level = 1 -> {<<"a", "a", "a">>, <<"a", "a", "a", "e">>,
                           <<"a", "a", "e">>, <<"a", "e", "a">>,
                           <<"a", "e", "e", "e">>, <<"e", "a", "a">>,
                           <<"e", "a", "a", "a">>, <<"e", "a", "a", "e">>,
                           <<"e", "a", "e">>, <<"e", "e", "a">>,
                           <<"e", "e", "e">>, <<"e", "e", "e", "a">>}]

\* the penalty of each level the web application shows for a configuration
\* that carries none
penalty_blacklist_level ==
    [level \in 1..5 |->
        CASE level = 1 -> 95 [] level = 2 -> 70 [] level = 3 -> 45
          [] level = 4 -> 25 [] level = 5 -> 10]

\* last_chars + next_chars of score_compatibility
BoundaryString(last_block, next_block) ==
    Lower(LastChars(last_block, 3)) \o Lower(FirstChars(next_block, 3))

\* the clusters of a level that lie in the boundary of the two blocks
BlacklistedAtBoundary(level, last_block, next_block) ==
    {cluster \in BLACKLISTED_COMBOS_BY_LEVEL[level] :
        Contains(BoundaryString(last_block, next_block), cluster)}

RECURSIVE BlacklistPenalty(_, _, _)
\* the penalty of the levels 1..level, once for each cluster at the boundary
BlacklistPenalty(level, last_block, next_block) ==
    IF level = 0 THEN 0
    ELSE penalty_blacklist_level[level]
            * Cardinality(BlacklistedAtBoundary(level, last_block, next_block))
         + BlacklistPenalty(level - 1, last_block, next_block)

\* C22: when clusters of the blacklist lie in the boundary string of the two
\* blocks, the score returned is the score of the other rules less the penalty
\* of its level for each of these clusters, and never below 0
C22_BlacklistPenaltySubtracted ==
    (/\ pc = "scored"
     /\ fn_args.last_block # <<>> /\ fn_args.next_block # <<>>)
    => fn_ret[1] = Max(0, RawCompatibility(fn_args.last_block, fn_args.next_block,
                                           fn_args.blocks_used, sc, pair_penalties)
                          - Points(BlacklistPenalty(5, fn_args.last_block,
                                                    fn_args.next_block)))

-----------------------------------------------------------------------------
(* The vowel-first preference of one selection *)

\* the texts of a sequence of entries or of scored candidates
TextsOf(entries) == {entries[i].text : i \in 1..Len(entries)}

\* the entries of the dictionary of the call whose vowel_first flag is vf_str
FlaggedEntries(vf_str) ==
    {i \in 1..Len(fn_args.block_type_dict) :
        /\ fn_args.block_type_dict[i].data.isdict
        /\ fn_args.block_type_dict[i].data.vowel_first = vf_str}

\* the entries of the dictionary of the call that can be scored
SoundEntries ==
    {i \in 1..Len(fn_args.block_type_dict) :
        ~Malformed(fn_args.block_type_dict[i].data)}

\* C23: a prefix selection with a preference draws "1" or "0" (always "1" for
\* a preference of 1.0 or True, always "0" for 0.0 or False); its candidates
\* are the entries flagged with the draw when there are any and the whole
\* dictionary otherwise, and the candidates scored are those of them that can
\* be scored. A middle or suffix selection, and a prefix selection without
\* preference, takes the whole dictionary whatever the preference passed.
C23_VowelFirstFilter ==
    (pc = "selected" /\ fn_args.block_type_dict # <<>>) =>
        LET whole == 1..Len(fn_args.block_type_dict)
            pool == IF sel.draw # "all" /\ FlaggedEntries(sel.draw) # {}
                    THEN FlaggedEntries(sel.draw)
                    ELSE whole
        IN  /\ (fn_args.block_type = "prefix" /\ fn_args.vowel_first_pref # NoPref)
                   => sel.draw \in {"0", "1"}
            /\ (fn_args.block_type # "prefix" \/ fn_args.vowel_first_pref = NoPref)
                   => sel.draw = "all"
            /\ (fn_args.block_type = "prefix" /\ fn_args.vowel_first_pref = 100)
                   => sel.draw = "1"
            /\ (fn_args.block_type = "prefix" /\ fn_args.vowel_first_pref = 0)
                   => sel.draw = "0"
            /\ TextsOf(sel.candidates)
                   = {fn_args.block_type_dict[i].text : i \in pool}
            /\ TextsOf(sel.scored)
                   = {fn_args.block_type_dict[i].text : i \in pool \cap SoundEntries}

\* a prefix selection with preference 0.0 scored the one consonant-first
\* entry of a dictionary that holds a vowel-first entry too
C23_Witness_ConsonantFirstOnly ==
    /\ pc = "selected"
    /\ fn_args.block_type = "prefix"
    /\ fn_args.vowel_first_pref = 0
    /\ FlaggedEntries("1") \cap SoundEntries # {}
    /\ TextsOf(sel.scored) = {<<"K", "o", "r">>}
    /\ fn_ret[1] = <<"K", "o", "r">>

-----------------------------------------------------------------------------
(* The triple letter rule and the common letters *)

\* the multiplier of the triple letter penalty for a common letter, in
\* tenths: the value the web application shows for a configuration that
\* carries none
penalty_repetition_triple_letter_common_multiplier == 7

\* the triple letter penalty scaled for the letters "lrsnmeo"
ScaledTripleLetterPenalty(last_block, next_block, cfg) ==
    IF InChars(LowerChar(last_block[Len(last_block)]),
               <<"l", "r", "s", "n", "m", "e", "o">>)
    THEN (TripleLetterPenalty(last_block, next_block, cfg)
             * penalty_repetition_triple_letter_common_multiplier) \div 10
    ELSE TripleLetterPenalty(last_block, next_block, cfg)

\* the join makes three identical letters in a row
TripleLetterJoin ==
    /\ pc = "scored"
    /\ fn_args.last_block # <<>> /\ fn_args.next_block # <<>>
    /\ TripleLetterPenalty(fn_args.last_block, fn_args.next_block,
                           [sc EXCEPT !.penalty_repetition_triple_letter = 1]) > 0

\* C24: when the join makes three identical letters in a row, the score is
\* the score of the other rules less the triple letter penalty, scaled by the
\* common-letter multiplier when the letter is one of "lrsnmeo" and whole
\* otherwise, and never below 0
C24_TripleLetterScaledForCommonLetters ==
    TripleLetterJoin =>
        fn_ret[1] = Max(0, RawCompatibility(fn_args.last_block, fn_args.next_block,
                                            fn_args.blocks_used, sc, pair_penalties)
                           + TripleLetterPenalty(fn_args.last_block,
                                                 fn_args.next_block, sc)
                           - ScaledTripleLetterPenalty(fn_args.last_block,
                                                       fn_args.next_block, sc))

-----------------------------------------------------------------------------
(* Where add_special_features puts what it inserts *)

\* the number of characters of the blocks before index j (1-based) of the name
LettersBefore(j) == Len(SelectSeq(SubSeq(name, 1, j - 1), NotSpecial))

\* the special characters of the name, each with the index of the character
\* of the joined blocks it stands before
FeaturesInName ==
    {[pos |-> LettersBefore(j), char |-> name[j]] :
        j \in {k \in 1..Len(name) : IsSpecial(name[k])}}

\* the positions that were scored and the characters chosen for them, of
\* the insertions made
FeaturesScored ==
    {[pos |-> features.placed[k].pos, char |-> features.placed[k].char] :
        k \in 1..Len(features.placed)}

\* C25: after add_special_features, every character inserted stands
\* immediately before the character of the joined blocks at the index that
\* was scored for it, whatever the number and the order of the insertions
C25_InsertedBeforeScoredIndex ==
    pc = "mods" => FeaturesInName = FeaturesScored

-----------------------------------------------------------------------------
(* What apply_character_modifications leaves alone *)

\* the name apply_character_modifications was given
ModificationInput == features.text

\* the positions (0-based) of the input the applied substitutions cover
CoveredPositions == UNION {CoveredBy(mods_applied[k]) : k \in 1..Len(mods_applied)}

\* the characters the applied substitutions remove: all of a pattern but one
RemovedBefore(i) ==
    SumSeq([k \in 1..Len(mods_applied) |->
               IF mods_applied[k].pos < i THEN mods_applied[k].length - 1 ELSE 0])

\* the index (0-based) in the output of the character at index i of the input
OutputIndex(i) == i - RemovedBefore(i)

\* C26: apply_character_modifications changes the characters of the
\* substitutions it applies and no other: each character outside them is in
\* the output, in its order; no special character and no character within one
\* position of one is inside a substitution; each substitution leaves one
\* replacement in the place of its pattern; the output is shorter than the
\* input by (pattern length - 1) for each ligature and by nothing for a
\* diacritic.
C26_OnlySubstitutionsChange ==
    pc = "cap" =>
        /\ Len(name) = Len(ModificationInput) - RemovedBefore(Len(ModificationInput))
        /\ \A i \in 0..(Len(ModificationInput) - 1) :
              /\ i \notin CoveredPositions
                    => At(name, OutputIndex(i)) = At(ModificationInput, i)
              /\ IsSpecial(At(ModificationInput, i))
                    => {i - 1, i, i + 1} \cap CoveredPositions = {}
        /\ \A k \in 1..Len(mods_applied) :
              /\ At(name, OutputIndex(mods_applied[k].pos)) \in Replacements(mods_applied[k])
              /\ mods_applied[k].mod_type = "diacritic" => mods_applied[k].length = 1
              /\ SubSeq(ModificationInput, mods_applied[k].pos + 1,
                        mods_applied[k].pos + mods_applied[k].length)
                    = mods_applied[k].original

\* a ligature shortened a name that holds a special character with a
\* ligature pattern or a vowel next to it
C26_Witness_LigatureBesideProtected ==
    /\ pc = "cap"
    /\ Len(name) < Len(ModificationInput)
    /\ \E i \in 1..(Len(ModificationInput) - 1) :
          /\ IsSpecial(ModificationInput[i])
          /\ ModificationInput[i + 1] \in {"a", "e", "s", "T"}
          /\ name[i] = ModificationInput[i]
          /\ name[i + 1] = ModificationInput[i + 1]

-----------------------------------------------------------------------------
(* set_force_block_count, then generate_fantasy_name *)

\* the largest block count a caller asks for
MaxRequestedCount == 4

\* a variant that takes block counts up to 4
set_force_block_count_UpToFour(cfg, count) ==
    LET valid == /\ count.values # <<>>
                 /\ \A k \in 1..Len(count.values) :
                       2 <= count.values[k] /\ count.values[k] <= 4
    IN  IF valid
        THEN [raised |-> FALSE,
              config |-> [cfg EXCEPT !.force_block_counts = count.values,
                                     !.block_counts_none = FALSE]]
        ELSE [raised |-> TRUE, config |-> cfg]

\* FantasyNameConfig.set_force_block_count; count is [is_int, values], an int
\* being one value. Every count must be 2 or 3 and a list must hold one at
\* least, otherwise ValueError is raised and the configuration stays
set_force_block_count(cfg, count) ==
    LET valid == /\ count.values # <<>>
                 /\ \A k \in 1..Len(count.values) :
                       2 <= count.values[k] /\ count.values[k] <= 3
    IN  IF valid
        THEN [raised |-> FALSE,
              config |-> [cfg EXCEPT !.force_block_counts = count.values,
                                     !.block_counts_none = FALSE]]
        ELSE [raised |-> TRUE, config |-> cfg]

\* the arguments of the call: an int, or a list of ints
RequestedCounts ==
    {[is_int |-> TRUE, values |-> <<n>>] : n \in 1..MaxRequestedCount}
    \cup {[is_int |-> FALSE, values |-> v] :
            v \in {<<>>, <<2, 3>>, <<3, MaxRequestedCount>>}}

\* the configuration before the call: the default counts, or none forced
CountConfigs ==
    {[DefaultFantasyNameConfig EXCEPT
         !.block_counts_none = none,
         !.special_features = 0, !.character_modifications = 0] :
        none \in BOOLEAN}

InitCount ==
    /\ data_dir \in DiskNames
    /\ loaded = PatternBlocksLoaded(data_dir)
    /\ theme = "default"
    /\ prefixes = LoadBlocks(data_dir, "default").prefixes
    /\ middles = LoadBlocks(data_dir, "default").middles
    /\ suffixes = LoadBlocks(data_dir, "default").suffixes
    /\ pair_penalties = {}
    /\ config \in CountConfigs
    /\ sc = BatchScoringConfig
    /\ blocks_used = <<>>
    /\ pc = "requesting"
    /\ block_count = 0
    /\ name = <<>>
    /\ features = Untouched(<<>>)
    /\ mods_applied = <<>>
    /\ metadata = NoMetadata
    /\ sel = NoSel
    /\ calls = <<>>
    /\ result = NoResult
    /\ forced_log = NoForced
    /\ last_outcome = "none"
    /\ \E count \in RequestedCounts : fn_args = [count |-> count, before |-> config]
    /\ fn_ret = <<>>

\* config.set_force_block_count(count), the caller going on after a ValueError
SetForceBlockCount ==
    /\ pc = "requesting"
    /\ LET r == set_force_block_count(config, fn_args.count)
       IN  /\ config' = r.config
           /\ fn_ret' = <<IF r.raised THEN "ValueError" ELSE "self">>
    /\ pc' = "idle"
    /\ UNCHANGED <<data_dir, loaded, theme, prefixes, middles, suffixes,
                   pair_penalties, sc, blocks_used, block_count, name,
                   features, mods_applied, metadata, sel, calls, result,
                   forced_log, last_outcome, fn_args>>

NextCount ==
    \/ SetForceBlockCount
    \/ Call
    \/ SelectPrefix
    \/ SelectMiddle
    \/ SelectSuffix
    \/ AddSpecialFeatures
    \/ ApplyCharacterModifications
    \/ FixCapitalization

SpecCount == InitCount /\ [][NextCount]_vars

\* a generation after the request has returned a name
GeneratedAfterRequest ==
    /\ pc = "idle"
    /\ result.returned
    /\ ~IsErrorName(result.name)

\* an int was passed
RequestedInt(n) == fn_args.count.is_int /\ fn_args.count.values = <<n>>

-----------------------------------------------------------------------------
(* Slot failures and the text of the fragments *)

\* C28: the name is aborted with a slot failure only when the selector of
\* the slot failed; a fragment the selector chose from its pool, whatever its
\* text, does not abort the name and is the last fragment of the context
C28_SelectedFragmentNeverAborts ==
    SelectorSucceeded =>
        /\ ~(pc = "idle" /\ result.returned /\ IsErrorName(result.name))
        /\ (pc \in {"middle", "suffix", "features"} =>
               /\ blocks_used # <<>>
               /\ blocks_used[Len(blocks_used)] = sel.out.ret)

-----------------------------------------------------------------------------
(* The was_forced flags of the metadata *)

\* a slot of the name took the low-score fallback
SomeSlotForced ==
    \/ metadata.prefix_score.was_forced
    \/ (metadata.middle_score.has /\ metadata.middle_score.was_forced)
    \/ metadata.suffix_score.was_forced

\* C29: in the metadata of an assembled name, the overall was_forced flag is
\* true exactly when the score data of one slot at least has was_forced true
C29_OverallForcedIffSlotForced ==
    metadata.has_overall => (metadata.was_forced <=> SomeSlotForced)

-----------------------------------------------------------------------------
(* The theme of a call and the dictionaries its fragments come from *)

\* the dictionary of a role for the theme of the call's config: the file of
\* the theme, or the file of the default theme when the theme has none
ThemeDict(block_type) ==
    LET own == RoleDict(ThemeFiles(data_dir, config.theme), block_type)
    IN  IF own # <<>>
        THEN own
        ELSE RoleDict(ThemeFiles(data_dir, "default"), block_type)

\* C30: once the first slot of a call has been filled, the active theme is
\* the theme of the call's config, the three dictionaries are those of that
\* theme (or its fallback) and nothing else, and every fragment of the name
\* is an entry of the dictionary of its role for that theme
C30_FragmentsFromThemeOfCall ==
    pc \in {"middle", "suffix", "features", "mods", "cap"} =>
        /\ theme = config.theme
        /\ prefixes = ThemeDict("prefix")
        /\ middles = ThemeDict("middle")
        /\ suffixes = ThemeDict("suffix")
        /\ blocks_used[1] \in TextsOf(ThemeDict("prefix"))
        /\ (pc = "suffix" /\ block_count = 3)
              => blocks_used[2] \in TextsOf(ThemeDict("middle"))
        /\ pc \in {"features", "mods", "cap"} =>
              /\ Len(blocks_used) = block_count
              /\ blocks_used[Len(blocks_used)] \in TextsOf(ThemeDict("suffix"))
              /\ block_count = 3
                    => blocks_used[2] \in TextsOf(ThemeDict("middle"))

\* a name of the elf theme has been assembled after a slot of an earlier
\* call was filled from the default theme, and none of its fragments is of
\* the default theme
C30_Witness_ElfAfterDefault ==
    /\ pc = "features"
    /\ data_dir = "full"
    /\ config.theme = "elf"
    /\ forced_log.seen /\ forced_log.theme = "default"
    /\ block_count = 3
    /\ \A k \in 1..Len(blocks_used) :
          blocks_used[k] \notin
              TextsOf(LoadBlocks("full", "default").prefixes)
              \cup TextsOf(LoadBlocks("full", "default").middles)
              \cup TextsOf(LoadBlocks("full", "default").suffixes)

====
